---- MODULE Spec2Model ----
(***************************************************************************)
(* Model of the scrape-and-extract pipeline of short-news:                 *)
(*   backend/app/scrapers/rate_limiter.py      RateLimiter.throttle        *)
(*   backend/app/scrapers/universal_scraper.py UniversalBlogScraper        *)
(*                                                                         *)
(* Time is the integer reading of time.monotonic().  Coroutines run under  *)
(* asyncio: a step of the model is the code between two awaits.            *)
(***************************************************************************)
EXTENDS Integers, Sequences, FiniteSets, TLC

(***************************************************************************)
(* Bounds of the model.                                                    *)
(***************************************************************************)
MaxTime == 4
MaxCalls == 3
MaxRequests == 2
MaxPeriod == 2
MaxDrift == 1

MaxSources == 2
MaxUrls == 2
MaxAttempts == 2
MaxArticles == 2
MaxPageArticles == 2

\* universal_scraper.py:320  the cap of a retry delay, in seconds
MaxBackoffDelay == 10

MaxPatterns == 3

MaxWords == 2
MaxPersists == 2
MaxElements == 2
MaxMatches == 2
\* create_news_item calls, scraped items per run and ingestion runs
MaxCreates == 3
MaxItems == 2
MaxRuns == 2

\* universal_scraper.py:347, 351, 411  the least length of a title
MinTitleLen == 6

\* universal_scraper.py:350, 359, 412, 416  titles are cut to this length
MaxTitleLen == 500

Keys == {"a.example", "b.example"}
Clients == {"c1", "c2"}
Run == "run"
Procs == Clients \cup {Run}
NoOne == "nobody"

\* The (max_requests, period) pairs a caller may pass, non-positive ones included.
Policies == [requests : 0..MaxRequests, interval : 0..MaxPeriod]
NoArg == [key |-> "none", requests |-> 0, interval |-> 0]
NoCall == [by |-> NoOne, key |-> "none"]

\* Article URLs a listing page may link to
Articles == {"x1", "x2"}

\* HTTP status codes of a response; a response may also carry a challenge marker in its body
Statuses == {200, 403, 404, 410, 500, 503}

\* What one session.get can do: answer, fail with httpx.TimeoutException / httpx.HTTPError
\* (transport), or raise an exception of another class
Outcomes ==
  [kind : {"response"}, status : Statuses, marker : BOOLEAN]
    \cup {[kind |-> "transport", status |-> 0, marker |-> FALSE],
          [kind |-> "exception", status |-> 0, marker |-> FALSE]}
NoOutcome == [kind |-> "none", status |-> 0, marker |-> FALSE]

\* The database sessions, each used by one NewsIngestionService
Sessions == {"s1", "s2"}

\* The payloads of create_news_item: a title or none, and a source_url
SourceUrls == {"u1", "u2"}
Payloads == [title : {"none", "Sample news"}, source_url : SourceUrls]
NoPayload == [title |-> "none", source_url |-> "none"]

\* The processes that persist snapshots
Writers == {"w1", "w2"}

\* No call of _persist_snapshot, and its result None
NoSnapshot == [company_name |-> <<>>, source_id |-> "", url |-> <<>>, html |-> <<>>]
NoPath == [slug |-> <<>>, source_id |-> "", digest |-> <<>>]

\* An element without href attribute: element.get("href", "") is empty
NoHref == [host |-> <<>>, section |-> "", slug |-> <<>>, ext |-> ""]

\* What the headless renderer returns: render(url, timeout) -> html_or_none
RenderResults == {"html", "none"}

\* The lists _extract_articles can return for a page: article URLs without repetition
ArticleLists ==
  {l \in UNION {[1..n -> Articles] : n \in 0..MaxPageArticles} :
     \A i, j \in 1..Len(l) : i # j => l[i] # l[j]}

\* URL lists of a source, each URL given by its host
UrlLists == UNION {[1..n -> Keys] : n \in 1..MaxUrls}

\* Rate-limit policies of a source
SourcePolicies == [requests : 0..1, interval : {MaxPeriod}]

\* retry.backoff_factor of a source: the base of the exponential delay, in seconds
BackoffFactors == {0, 2, 11}

\* SourceConfig: max_articles 0 stands for an unset (None) or zero cap, both falsy
SourceConfigs ==
  [urls : UrlLists, attempts : (-1)..MaxAttempts, backoff_factor : BackoffFactors,
   max_articles : 0..MaxArticles, use_headless : BOOLEAN, rate_limit : SourcePolicies]
NoConfig ==
  [urls |-> <<>>, attempts |-> 0, backoff_factor |-> 0, max_articles |-> 0,
   use_headless |-> FALSE, rate_limit |-> [requests |-> 0, interval |-> 0]]

VARIABLES
  clock,      \* time.monotonic()
  locks,      \* RateLimiter._locks: per key, whether the entry exists, the owner, the FIFO of waiters
  history,    \* RateLimiter._history: per key, the deque of admission timestamps
  admitted,   \* per key, its admissions of the last MaxPeriod time units in order, evicted
              \* ones included, each with its policy, whether the caller had to sleep and
              \* whether a caller of another key was asleep then (history variable)
  t_pc,       \* per caller: position inside throttle
  t_arg,      \* per caller: the arguments of its throttle call
  t_wake,     \* per caller: the time its asyncio.sleep(sleep_for) ends
  used,       \* per key, the positive policies throttle was called with (history variable)
  calls,      \* number of throttled calls the clients have made (bounds the exploration)
  unthrottled,\* the caller and key of the step just taken, when that step was a throttle call
              \* with max_requests <= 0 or period <= 0 (history variable)
  n_sources,  \* number of SourceConfigs get_sources returned for the run
  max_articles,      \* the max_articles argument of scrape_company_blog
  headless_enabled,  \* settings.SCRAPER_HEADLESS_ENABLED
  pc,         \* position of the run inside scrape_company_blog / _scrape_source / _fetch_with_retry
  src,        \* index of the source being scraped
  cfg,        \* source_config of the source being scraped
  url_i,      \* index of the URL of the source being fetched
  attempt,    \* loop variable of _fetch_with_retry
  html,       \* result of the last _fetch_with_retry: "none" or "html"
  items,      \* items of _scrape_source
  seen_urls,  \* seen_urls of the run
  news_items, \* news_items of the run
  throttles,  \* throttle calls made by the current _fetch_with_retry call (history variable)
  gets,       \* GETs sent by the current _fetch_with_retry call (history variable)
  errors,     \* how many of them failed with a timeout or an HTTP error (history variable)
  last,       \* outcome of the latest GET of the current _fetch_with_retry call (history variable)
  rendered,   \* results of the headless renderer in the current call (history variable)
  delays,     \* the delays of the asyncio.sleep calls between the attempts of the current
              \* call, in order (history variable)
  suppressed, \* article URLs skipped because they were in seen_urls (history variable)
  outcomes,   \* per source scraped so far: its index, whether it raised, the items it returned
  h_pc,       \* position of a run of the heuristic scrape_company_blog: "idle", "loop", "done"
  blog_urls,  \* its blog_urls: the manual URL alone, or the default path patterns in order
  blog_i,     \* index of the blog_url the loop is at
  h_items,    \* its news_items
  h_fetched,  \* the blog_urls it has sent a GET for, in order (history variable)
  e_pc,       \* position of a call of _extract_articles: "idle", "page", "done"
  page,       \* its arguments: base_url, the elements the selectors select in the order the
              \* loops reach them, the href matches of the script bodies in order
  candidates, \* the list it returned, each candidate with the strategy that found it
  c_pc,       \* position of a call of _infer_category: "idle", "title", "done"
  c_title,    \* its argument: the title
  category,   \* the category it returned, "none" for None
  snapshots_enabled, \* settings.SCRAPER_SNAPSHOTS_ENABLED
  files,      \* the snapshot files: per path, whether the file exists and its text
  dirs,       \* the directories under the snapshot root that exist, by slug
  w_pc,       \* per process that persists snapshots: its position in _persist_snapshot
  w_arg,      \* per process: the arguments of its call
  writes,     \* per path, the number of write_text calls that opened it (history variable)
  persisted   \* the calls of _persist_snapshot that returned, in order, each with its
              \* arguments and its result (history variable)

VARIABLES
  snapshot_path,     \* snapshot_path of _scrape_source: the result of _persist_snapshot
  page_articles,     \* articles of _scrape_source: those the loop has yet to reach
  inferred_category, \* inferred_category of the article the loop is at
  steps       \* what was done with the page of the current URL so far, in order: "snapshot",
              \* "extract", "classify", "emit" (history variable)

VARIABLES
  rows,       \* the committed rows of the news_items table, in the order of their commits
  n_pc,       \* per session: the position of its create_news_item call
  n_arg,      \* per session: the payload of the call
  results,    \* the create_news_item calls that ended, in order: session, payload, how the
              \* call ended, the id of the record returned, the number of rows when the
              \* call began and when it ended (history variable)
  n_before,   \* per session: the number of rows when its call began (history variable)
  i_pc,       \* position of ingest_company_news: "idle", "loop", "await", "done"
  scraped,    \* items: what provider.scrape_company returns for the pages
  item_i,     \* index of the item the loop is at
  ingested,   \* ingested of ingest_company_news
  reports     \* per run that returned: the count it returned and the source_urls stored
              \* then (history variable)

VARIABLES
  horizon     \* the last reading of time.monotonic() the model follows

rlvars == <<clock, locks, history, admitted, t_pc, t_arg, t_wake, used, calls, unthrottled>>

svars == <<n_sources, max_articles, headless_enabled, pc, src, cfg, url_i, attempt, html,
           items, seen_urls, news_items, throttles, gets, errors, last, rendered, delays,
          suppressed, outcomes>>

hvars == <<h_pc, blog_urls, blog_i, h_items, h_fetched>>

evars == <<e_pc, page, candidates>>

cvars == <<c_pc, c_title, category>>

pvars == <<snapshots_enabled, files, dirs, w_pc, w_arg, writes, persisted>>

kvars == <<snapshot_path, page_articles, inferred_category, steps>>

tvars == <<horizon>>

dvars == <<rows, n_pc, n_arg, results, n_before, i_pc, scraped, item_i, ingested, reports>>

vars == <<clock, locks, history, admitted, t_pc, t_arg, t_wake, used, calls, unthrottled,
          n_sources, max_articles, headless_enabled, pc, src, cfg, url_i, attempt, html,
          items, seen_urls, news_items, throttles, gets, errors, last, rendered, delays,
          suppressed, outcomes, h_pc, blog_urls, blog_i, h_items, h_fetched,
          e_pc, page, candidates, c_pc, c_title, category,
          snapshots_enabled, files, dirs, w_pc, w_arg, writes, persisted,
          snapshot_path, page_articles, inferred_category, steps,
          rows, n_pc, n_arg, results, n_before, i_pc, scraped, item_i, ingested, reports,
          horizon>>

(***************************************************************************)
(* RateLimiter                                                             *)
(***************************************************************************)

\* Unthrottled with the test on the period made strict
Unthrottled_StrictPeriod(max_requests, period) == max_requests <= 0 \/ period < 0

\* rate_limiter.py:26  if max_requests <= 0 or period <= 0: return
Unthrottled(max_requests, period) == max_requests <= 0 \/ period <= 0

\* LockOf with one lock shared by all keys
LockOf_Shared(key) == "a.example"

\* rate_limiter.py:30  lock = self._locks[key]: one lock per key
LockOf(key) == key

\* CanAcquire that does not look at the lock
CanAcquire_Unlocked(k) == TRUE

\* asyncio.Lock.acquire takes the lock at once only when it is free and nobody queues for it
CanAcquire(k) == locks[k].owner = NoOne /\ locks[k].waiters = <<>>

\* Evict that drops a timestamp one time unit before it leaves the window
RECURSIVE Evict_Early(_, _, _)
Evict_Early(window, now, period) ==
  IF window # <<>> /\ now - Head(window) >= period - 1
  THEN Evict_Early(Tail(window), now, period)
  ELSE window

\* rate_limiter.py:36-37 and 44-45  while window and now - window[0] >= period: window.popleft()
RECURSIVE Evict(_, _, _)
Evict(window, now, period) ==
  IF window # <<>> /\ now - Head(window) >= period
  THEN Evict(Tail(window), now, period)
  ELSE window

\* The admissions of a log that can still share a window with an admission at or after
\* now: those less than MaxPeriod old
Recent(log, now) == SelectSeq(log, LAMBDA e : e.t > now - MaxPeriod)

\* Released that leaves the lock with the caller
Released_Held(p) == p

\* rate_limiter.py:31  the end of async with lock: the lock is released
Released(p) == NoOne

\* rate_limiter.py:47  window.append(time.monotonic()), then leaving `async with lock`
\* (the lock is released and the first waiter, if any, is woken).  With the branch taken
\* after a wait, rate_limiter.py:44-45 cleans the window up first.  The clock may have
\* moved by d between the read that evicted and the read that is appended.
Admit(p, k, m, w, window, ws, d) ==
  LET t == clock + d
      entry == [t |-> t, requests |-> m, interval |-> w,
                slept |-> t_pc[p] = "sleeping",
                overlap |-> \E q \in Procs \ {p} : t_pc[q] = "sleeping" /\ t_arg[q].key # k]
  IN
  /\ t <= horizon
  /\ clock' = t
  /\ history' = [history EXCEPT ![k] = Append(window, t)]
  /\ admitted' = [j \in Keys |->
        Recent(IF j = k THEN Append(admitted[j], entry) ELSE admitted[j], t)]
  /\ locks' = [locks EXCEPT ![LockOf(k)] = [exists |-> TRUE, owner |-> Released(p),
                                            waiters |-> ws]]
  /\ t_pc' = [t_pc EXCEPT ![p] = "idle"]
  /\ t_arg' = [t_arg EXCEPT ![p] = NoArg]
  /\ t_wake' = [t_wake EXCEPT ![p] = 0]

\* rate_limiter.py:32-42 and 47, run by p right after it got the lock of k: read the clock,
\* evict, and either start sleeping (the lock stays with p) or admit at once.
Accounting(p, k, m, w, ws) ==
  LET now == clock
      window == Evict(history[k], now, w)
  IN  IF Len(window) >= m /\ w - (now - Head(window)) > 0
      THEN /\ history' = [history EXCEPT ![k] = window]
           /\ locks' = [locks EXCEPT ![LockOf(k)] = [exists |-> TRUE, owner |-> p, waiters |-> ws]]
           /\ t_pc' = [t_pc EXCEPT ![p] = "sleeping"]
           /\ t_wake' = [t_wake EXCEPT ![p] = now + (w - (now - Head(window)))]
           /\ t_arg' = [t_arg EXCEPT ![p] = [key |-> k, requests |-> m, interval |-> w]]
           /\ UNCHANGED <<clock, admitted>>
      ELSE \E d \in 0..MaxDrift :
             Admit(p, k, m, w,
                   IF Len(window) >= m THEN Evict(window, clock + d, w) ELSE window,
                   ws, d)

\* rate_limiter.py:26-28  throttle with a non-positive policy returns at once
ThrottleNoop(p, k, m, w) ==
  /\ Unthrottled(m, w)
  /\ t_pc' = [t_pc EXCEPT ![p] = "idle"]
  /\ UNCHANGED <<clock, locks, history, admitted, t_arg, t_wake, used>>

\* rate_limiter.py:30-47  throttle when the key's lock is free: the accounting runs at once
ThrottleLockFree(p, k, m, w) ==
  /\ ~Unthrottled(m, w)
  /\ CanAcquire(LockOf(k))
  /\ used' = [used EXCEPT ![k] = @ \cup {[requests |-> m, interval |-> w]}]
  /\ Accounting(p, k, m, w, locks[LockOf(k)].waiters)

\* rate_limiter.py:30-31  throttle when the key's lock is taken: the caller queues on it
ThrottleLockBusy(p, k, m, w) ==
  /\ ~Unthrottled(m, w)
  /\ ~CanAcquire(LockOf(k))
  /\ used' = [used EXCEPT ![k] = @ \cup {[requests |-> m, interval |-> w]}]
  /\ t_arg' = [t_arg EXCEPT ![p] = [key |-> k, requests |-> m, interval |-> w]]
  /\ locks' = [locks EXCEPT ![LockOf(k)] = [exists |-> TRUE, owner |-> @.owner, waiters |-> Append(@.waiters, p)]]
  /\ t_pc' = [t_pc EXCEPT ![p] = "waiting"]
  /\ UNCHANGED <<clock, history, admitted, t_wake>>

\* rate_limiter.py:31-47  the first waiter of a released lock takes it and runs the accounting
ThrottleResume(p) ==
  /\ t_pc[p] = "waiting"
  /\ LET lk == LockOf(t_arg[p].key) IN
       /\ locks[lk].owner = NoOne
       /\ locks[lk].waiters # <<>>
       /\ Head(locks[lk].waiters) = p
       /\ Accounting(p, t_arg[p].key, t_arg[p].requests, t_arg[p].interval,
                     Tail(locks[lk].waiters))
  /\ unthrottled' = NoCall
  /\ UNCHANGED used

\* rate_limiter.py:42-47  asyncio.sleep(sleep_for) is over: clean up, append, release
ThrottleWake(p) ==
  /\ t_pc[p] = "sleeping"
  /\ clock >= t_wake[p]
  /\ \E d \in 0..MaxDrift :
       Admit(p, t_arg[p].key, t_arg[p].requests, t_arg[p].interval,
             Evict(history[t_arg[p].key], clock, t_arg[p].interval),
             locks[LockOf(t_arg[p].key)].waiters, d)
  /\ UNCHANGED used

\* time.monotonic() advances
Tick ==
  /\ clock < horizon
  /\ clock' = clock + 1
  /\ admitted' = [j \in Keys |-> Recent(admitted[j], clock + 1)]
  /\ UNCHANGED <<locks, history, t_pc, t_arg, t_wake, used>>

\* A coroutine calls RateLimiter.throttle(key, max_requests, period)
ClientCall(p) ==
  /\ t_pc[p] = "idle"
  /\ calls < MaxCalls
  /\ \E k \in Keys, pol \in Policies :
       /\ calls' = IF Unthrottled(pol.requests, pol.interval) THEN calls ELSE calls + 1
       /\ \/ ThrottleNoop(p, k, pol.requests, pol.interval)
          \/ ThrottleLockFree(p, k, pol.requests, pol.interval)
          \/ ThrottleLockBusy(p, k, pol.requests, pol.interval)
       /\ unthrottled' = IF pol.requests <= 0 \/ pol.interval <= 0
                         THEN [by |-> p, key |-> k] ELSE NoCall

\* rate_limiter.py:18-20  RateLimiter.__init__
InitLimiter ==
  /\ clock = 0
  /\ locks = [k \in Keys |-> [exists |-> FALSE, owner |-> NoOne, waiters |-> <<>>]]
  /\ history = [k \in Keys |-> <<>>]
  /\ admitted = [k \in Keys |-> <<>>]
  /\ t_pc = [p \in Procs |-> "idle"]
  /\ t_arg = [p \in Procs |-> NoArg]
  /\ t_wake = [p \in Procs |-> 0]
  /\ used = [k \in Keys |-> {}]
  /\ calls = 0
  /\ unthrottled = NoCall

\* The run of the scraper before scrape_company_blog is called with the given inputs
InitRun(n, m, h) ==
  /\ n_sources = n
  /\ max_articles = m
  /\ headless_enabled = h
  /\ pc = "start"
  /\ src = 0
  /\ cfg = NoConfig
  /\ url_i = 0
  /\ attempt = 0
  /\ html = "none"
  /\ items = <<>>
  /\ seen_urls = {}
  /\ news_items = <<>>
  /\ throttles = 0
  /\ gets = 0
  /\ errors = 0
  /\ last = NoOutcome
  /\ rendered = <<>>
  /\ delays = <<>>
  /\ suppressed = {}
  /\ outcomes = <<>>

\* The heuristic scrape_company_blog before it is called
InitHeuristic ==
  /\ h_pc = "idle"
  /\ blog_urls = <<>>
  /\ blog_i = 0
  /\ h_items = <<>>
  /\ h_fetched = <<>>

\* No call of _extract_articles is under way
NoPage == [base_url |-> [host |-> <<>>], elements |-> <<>>, matches |-> <<>>]
InitExtract ==
  /\ e_pc = "idle"
  /\ page = NoPage
  /\ candidates = <<>>

\* No call of _infer_category is under way
InitClassify ==
  /\ c_pc = "idle"
  /\ c_title = <<>>
  /\ category = "none"

\* The snapshot directory is empty and no process is inside _persist_snapshot
InitStore(enabled) ==
  /\ snapshots_enabled = enabled
  /\ files = [q \in {} |-> <<>>]
  /\ dirs = {}
  /\ w_pc = [w \in Writers |-> "idle"]
  /\ w_arg = [w \in Writers |-> NoSnapshot]
  /\ writes = [q \in {} |-> 0]
  /\ persisted = <<>>

\* The locals of _scrape_source between two pages
InitPage ==
  /\ snapshot_path = NoPath
  /\ page_articles = <<>>
  /\ inferred_category = "none"
  /\ steps = <<>>

\* The news_items table is empty, no session is inside create_news_item and
\* ingest_company_news has not been called
InitNews ==
  /\ rows = <<>>
  /\ n_pc = [s \in Sessions |-> "idle"]
  /\ n_arg = [s \in Sessions |-> NoPayload]
  /\ results = <<>>
  /\ n_before = [s \in Sessions |-> 0]
  /\ i_pc = "idle"
  /\ scraped = <<>>
  /\ item_i = 0
  /\ ingested = 0
  /\ reports = <<>>

\* The clock is followed up to MaxTime
InitHorizon == horizon = MaxTime

InitRL ==
  /\ InitLimiter /\ InitRun(0, 0, FALSE) /\ InitHeuristic /\ InitExtract /\ InitClassify
  /\ InitStore(FALSE)
  /\ InitHorizon
  /\ InitNews
  /\ InitPage

NextRL ==
  /\ \/ \E p \in Clients : ClientCall(p)
     \/ \E p \in Clients : ThrottleResume(p) /\ UNCHANGED calls
     \/ \E p \in Clients : ThrottleWake(p) /\ unthrottled' = NoCall /\ UNCHANGED calls
     \/ Tick /\ unthrottled' = NoCall /\ UNCHANGED calls
  /\ UNCHANGED <<svars, hvars, evars, cvars, pvars, kvars, dvars, tvars>>

\* Concurrent callers of one RateLimiter
SpecRL == InitRL /\ [][NextRL]_vars

\* Every call made by MaxTime can sleep its way through: a throttled call sleeps at most
\* MaxPeriod and its append reads the clock at most MaxDrift later
Horizon == MaxTime + MaxCalls * (MaxPeriod + MaxDrift)

InitRLFair ==
  /\ InitLimiter /\ InitRun(0, 0, FALSE) /\ InitHeuristic /\ InitExtract /\ InitClassify
  /\ InitStore(FALSE)
  /\ InitPage
  /\ InitNews
  /\ horizon = Horizon

\* A coroutine calls throttle while the clock has not passed MaxTime
EarlyCall(p) == clock <= MaxTime /\ ClientCall(p)

\* The steps of the event loop: the waiter the lock woke runs, the sleeper whose timer
\* is due runs, the clock advances.  A coroutine that is ready runs before the clock
\* reads one more (what it reads later is the drift of its append).
Resumes(p) ==
  /\ ThrottleResume(p)
  /\ UNCHANGED <<calls, svars, hvars, evars, cvars, pvars, kvars, dvars, tvars>>
Wakes(p) ==
  /\ ThrottleWake(p)
  /\ unthrottled' = NoCall
  /\ UNCHANGED <<calls, svars, hvars, evars, cvars, pvars, kvars, dvars, tvars>>
Advances ==
  /\ \A p \in Clients : ~(t_pc[p] = "sleeping" /\ clock >= t_wake[p])
  /\ \A k \in Keys : ~(locks[k].owner = NoOne /\ locks[k].waiters # <<>>)
  /\ Tick
  /\ unthrottled' = NoCall
  /\ UNCHANGED <<calls, svars, hvars, evars, cvars, pvars, kvars, dvars, tvars>>

NextRLFair ==
  \/ \E p \in Clients :
       EarlyCall(p) /\ UNCHANGED <<svars, hvars, evars, cvars, pvars, kvars, dvars, tvars>>
  \/ \E p \in Clients : Resumes(p)
  \/ \E p \in Clients : Wakes(p)
  \/ Advances

\* Concurrent callers under asyncio's scheduling: the event loop runs every coroutine
\* that is ready (the waiter the lock woke, the sleeper whose timer is due), and the
\* clock advances
SpecRLFair ==
  /\ InitRLFair
  /\ [][NextRLFair]_vars
  /\ \A p \in Clients : WF_vars(Resumes(p))
  /\ \A p \in Clients : WF_vars(Wakes(p))
  /\ WF_vars(Advances)

(***************************************************************************)
(* UniversalBlogScraper: one run of scrape_company_blog                    *)
(***************************************************************************)

\* Attempts without the first try
Attempts_RetriesOnly(n) == IF n > 1 THEN n ELSE 1

\* universal_scraper.py:287  attempts = max(1, source_config.retry.attempts + 1)
Attempts(n) == IF n + 1 > 1 THEN n + 1 ELSE 1

\* universal_scraper.py:491-497  _requires_headless
RequiresHeadless(response) == response.status \in {403, 503} \/ response.marker

\* CanUseHeadless that ignores the global flag
CanUseHeadless_SourceOnly(source_config) == source_config.use_headless

\* universal_scraper.py:499-500  _can_use_headless
CanUseHeadless(source_config) == source_config.use_headless \/ headless_enabled

\* universal_scraper.py:303  response.raise_for_status() raises httpx.HTTPStatusError
\* for a 4xx or 5xx status
RaisesForStatus(response) == response.status >= 400

\* universal_scraper.py:140  per_source_limit = source_config.max_articles or max_articles
PerSourceLimit(source_config) ==
  IF source_config.max_articles # 0 THEN source_config.max_articles ELSE max_articles

\* IsSeen that never finds a URL
IsSeen_Never(url, seen) == FALSE

\* universal_scraper.py:251  if article["url"] in seen_urls: continue
IsSeen(url, seen) == url \in seen

\* universal_scraper.py:250-275  the loop over the articles of one page: skip the seen
\* ones, record and append the others, stop once len(items) >= max_articles
RECURSIVE Emit(_, _, _, _, _)
Emit(articles, seen, its, skipped, limit) ==
  IF articles = <<>>
  THEN [seen |-> seen, items |-> its, skipped |-> skipped]
  ELSE LET url == Head(articles) IN
       IF IsSeen(url, seen)
       THEN Emit(Tail(articles), seen, its, skipped \cup {url}, limit)
       ELSE LET its2 == Append(its, [source_url |-> url, source |-> src]) IN
            IF Len(its2) >= limit
            THEN [seen |-> seen \cup {url}, items |-> its2, skipped |-> skipped]
            ELSE Emit(Tail(articles), seen \cup {url}, its2, skipped, limit)

\* AfterFailure that gives the run up: no source is left after the one that failed
AfterFailure_Abort(i) == n_sources + 1

\* universal_scraper.py:155-161  except Exception: log, and the loop goes on with the
\* source after the one that failed
AfterFailure(i) == i + 1

limiterState == <<clock, locks, history, admitted, t_pc, t_arg, t_wake, used, calls>>
inputs == <<n_sources, max_articles, headless_enabled>>
fetchvars == <<attempt, html, throttles, gets, errors, last, rendered, delays>>
runvars == <<src, cfg, url_i, items, seen_urls, news_items, suppressed, outcomes>>

\* A step of the run that does not call the limiter
Quiet == unthrottled' = NoCall /\ UNCHANGED limiterState

\* The locals of _fetch_with_retry once the call is over
FetchOver ==
  /\ attempt' = 0
  /\ html' = "none"
  /\ throttles' = 0
  /\ gets' = 0
  /\ errors' = 0
  /\ last' = NoOutcome
  /\ rendered' = <<>>
  /\ delays' = <<>>

\* The locals of _scrape_source once the call is over
SourceOver ==
  /\ cfg' = NoConfig
  /\ url_i' = 0
  /\ items' = <<>>

\* universal_scraper.py:125-137  no source configuration: return []
RunNoSources ==
  /\ pc = "start"
  /\ n_sources = 0
  /\ pc' = "done"
  /\ Quiet
  /\ UNCHANGED <<inputs, fetchvars, runvars>>

\* universal_scraper.py:125-139  the run starts with the first source
RunBegin ==
  /\ pc = "start"
  /\ n_sources > 0
  /\ src' = 1
  /\ pc' = "source"
  /\ Quiet
  /\ UNCHANGED <<inputs, fetchvars, cfg, url_i, items, seen_urls, news_items, suppressed,
                 outcomes>>

\* universal_scraper.py:139-153, 220  the next source_config, one of cs, is taken and
\* _scrape_source is entered
SourceBegin(cs) ==
  /\ pc = "source"
  /\ src <= n_sources
  /\ \E c \in cs : cfg' = c
  /\ items' = <<>>
  /\ url_i' = 1
  /\ pc' = "url"
  /\ Quiet
  /\ UNCHANGED <<inputs, fetchvars, src, seen_urls, news_items, suppressed, outcomes>>

\* universal_scraper.py:163-168  all sources done: return news_items
RunFinish ==
  /\ pc = "source"
  /\ src > n_sources
  /\ pc' = "done"
  /\ Quiet
  /\ UNCHANGED <<inputs, fetchvars, runvars>>

\* universal_scraper.py:222-224, 287-293  the next URL of the source: _fetch_with_retry starts
FetchBegin ==
  /\ pc = "url"
  /\ url_i <= Len(cfg.urls)
  /\ FetchOver
  /\ pc' = "throttle"
  /\ Quiet
  /\ UNCHANGED <<inputs, runvars>>

\* universal_scraper.py:222, 280  no URL left: _scrape_source returns items
UrlsExhausted ==
  /\ pc = "url"
  /\ url_i > Len(cfg.urls)
  /\ pc' = "return"
  /\ Quiet
  /\ UNCHANGED <<inputs, fetchvars, runvars>>

\* universal_scraper.py:295-299  await self.rate_limiter.throttle(host_key, requests,
\* interval) with a positive policy: the run is the only caller, so the lock is free
FetchThrottled ==
  /\ pc = "throttle"
  /\ ThrottleLockFree(Run, cfg.urls[url_i], cfg.rate_limit.requests, cfg.rate_limit.interval)
  /\ unthrottled' = NoCall
  /\ throttles' = throttles + 1
  /\ pc' = "get"
  /\ UNCHANGED <<calls, inputs, attempt, html, gets, errors, last, rendered, delays, runvars>>

\* universal_scraper.py:295-299  the same call with a non-positive policy
FetchUnthrottled ==
  /\ pc = "throttle"
  /\ ThrottleNoop(Run, cfg.urls[url_i], cfg.rate_limit.requests, cfg.rate_limit.interval)
  /\ unthrottled' = [by |-> Run, key |-> cfg.urls[url_i]]
  /\ throttles' = throttles + 1
  /\ pc' = "get"
  /\ UNCHANGED <<calls, inputs, attempt, html, gets, errors, last, rendered, delays, runvars>>

\* universal_scraper.py:42-47  the run's sleep inside throttle is over
FetchThrottleWake ==
  /\ ThrottleWake(Run)
  /\ unthrottled' = NoCall
  /\ UNCHANGED <<calls, svars>>

\* time.monotonic() advances while the run is under way
RunTick ==
  /\ Tick
  /\ unthrottled' = NoCall
  /\ UNCHANGED <<calls, svars>>

\* universal_scraper.py:300-308  the GET is answered and the response is neither blocked
\* nor an error status: return response.text
GetOk(o) ==
  /\ o.kind = "response" /\ ~RequiresHeadless(o) /\ ~RaisesForStatus(o)
  /\ html' = "html"
  /\ pc' = "fetched"
  /\ UNCHANGED <<attempt, errors, rendered, delays, runvars>>

\* universal_scraper.py:301-302, 309-315  the response is edge-protected: NeedsHeadless is
\* raised and caught, and the loop is left unless the headless renderer may be used
GetBlocked(o) ==
  /\ o.kind = "response" /\ RequiresHeadless(o)
  /\ IF CanUseHeadless(cfg)
     THEN pc' = "headless"
     ELSE pc' = "fetched"
  /\ html' = "none"
  /\ UNCHANGED <<attempt, errors, rendered, delays, runvars>>

\* universal_scraper.py:319  backoff = (source_config.retry.backoff_factor) ** attempt
RECURSIVE Backoff(_, _)
Backoff(backoff_factor, n) ==
  IF n = 0 THEN 1 ELSE backoff_factor * Backoff(backoff_factor, n - 1)

\* BackoffDelay without the cap
BackoffDelay_Uncapped(backoff) == backoff

\* universal_scraper.py:320  min(10, backoff)
BackoffDelay(backoff) == IF MaxBackoffDelay < backoff THEN MaxBackoffDelay ELSE backoff

\* universal_scraper.py:303, 316-323  timeout or HTTP error, an error status included:
\* the sleep of min(10, backoff) starts while attempt + 1 < attempts, else the call
\* gives up
GetError(o) ==
  /\ \/ o.kind = "transport"
     \/ o.kind = "response" /\ ~RequiresHeadless(o) /\ RaisesForStatus(o)
  /\ errors' = errors + 1
  /\ IF attempt + 1 < Attempts(cfg.attempts)
     THEN /\ delays' = Append(delays, BackoffDelay(Backoff(cfg.backoff_factor, attempt)))
          /\ pc' = "backoff"
     ELSE /\ delays' = delays
          /\ pc' = "fetched"
  /\ html' = "none"
  /\ UNCHANGED <<attempt, rendered, runvars>>

\* universal_scraper.py:300, 147-161  the GET raises an exception that is neither a timeout
\* nor an httpx.HTTPError: it leaves _fetch_with_retry and _scrape_source, and
\* scrape_company_blog catches and logs it
GetRaises(o) ==
  /\ o.kind = "exception"
  /\ outcomes' = Append(outcomes, [source |-> src, failed |-> TRUE, items |-> <<>>])
  /\ src' = AfterFailure(src)
  /\ pc' = "source"
  /\ SourceOver
  /\ html' = "none"
  /\ UNCHANGED <<attempt, errors, rendered, delays, seen_urls, news_items, suppressed>>

\* universal_scraper.py:300  response = await self.session.get(url, ...), once throttle returned
FetchGet ==
  /\ pc = "get"
  /\ t_pc[Run] = "idle"
  /\ \E o \in Outcomes :
       /\ gets' = gets + 1
       /\ last' = o
       /\ \/ GetOk(o)
          \/ GetBlocked(o)
          \/ GetError(o)
          \/ GetRaises(o)
  /\ Quiet
  /\ UNCHANGED <<inputs, throttles>>

\* AfterBackoff that goes straight to the GET: only the first try is throttled
AfterBackoff_NoThrottle == "get"

\* universal_scraper.py:293-295  the next pass of the loop starts with the throttle call
AfterBackoff == "throttle"

\* universal_scraper.py:320, 293  asyncio.sleep(min(10, backoff)) is over: the next
\* attempt of the loop
FetchBackoff ==
  /\ pc = "backoff"
  /\ attempt' = attempt + 1
  /\ last' = NoOutcome
  /\ pc' = AfterBackoff
  /\ Quiet
  /\ UNCHANGED <<inputs, html, throttles, gets, errors, rendered, delays, runvars>>

\* universal_scraper.py:312-315  html = await fetch_page_with_headless(url, timeout):
\* return it when there is one, else leave the loop and return None
FetchHeadless ==
  /\ pc = "headless"
  /\ \E r \in RenderResults :
       /\ rendered' = Append(rendered, r)
       /\ html' = r
  /\ pc' = "fetched"
  /\ Quiet
  /\ UNCHANGED <<inputs, attempt, throttles, gets, errors, last, delays, runvars>>

\* PageSkipped that records an article URL as seen
PageSkipped_Marks ==
  /\ pc = "fetched"
  /\ html = "none"
  /\ url_i' = url_i + 1
  /\ pc' = "url"
  /\ seen_urls' = seen_urls \cup {"x1"}
  /\ FetchOver
  /\ Quiet
  /\ UNCHANGED <<inputs, src, cfg, items, news_items, suppressed, outcomes>>

\* universal_scraper.py:224-226  no html: continue with the next URL
PageSkipped ==
  /\ pc = "fetched"
  /\ html = "none"
  /\ url_i' = url_i + 1
  /\ pc' = "url"
  /\ FetchOver
  /\ Quiet
  /\ UNCHANGED <<inputs, src, cfg, items, seen_urls, news_items, suppressed, outcomes>>

\* universal_scraper.py:228-278  the page is parsed, its articles extracted and emitted
PageProcessed ==
  /\ pc = "fetched"
  /\ html = "html"
  /\ \E articles \in ArticleLists :
       IF articles = <<>>
       THEN /\ url_i' = url_i + 1
            /\ pc' = "url"
            /\ UNCHANGED <<items, seen_urls, suppressed>>
       ELSE LET e == Emit(articles, seen_urls, items, {}, PerSourceLimit(cfg)) IN
            /\ items' = e.items
            /\ seen_urls' = e.seen
            /\ suppressed' = suppressed \cup e.skipped
            /\ IF Len(e.items) >= PerSourceLimit(cfg)
               THEN pc' = "return" /\ url_i' = url_i
               ELSE pc' = "url" /\ url_i' = url_i + 1
  /\ FetchOver
  /\ Quiet
  /\ UNCHANGED <<inputs, src, cfg, news_items, outcomes>>

\* universal_scraper.py:280, 148-154  _scrape_source returns: news_items.extend(source_items)
SourceReturn ==
  /\ pc = "return"
  /\ news_items' = news_items \o items
  /\ outcomes' = Append(outcomes, [source |-> src, failed |-> FALSE, items |-> items])
  /\ src' = src + 1
  /\ pc' = "source"
  /\ SourceOver
  /\ Quiet
  /\ UNCHANGED <<inputs, fetchvars, seen_urls, suppressed>>

(***************************************************************************)
(* SpecFetch: the _fetch_with_retry calls of one source, with every source *)
(* configuration, on a RateLimiter whose clock advances.                   *)
(***************************************************************************)
InitFetch ==
  /\ InitLimiter
  /\ InitHeuristic
  /\ InitExtract
  /\ InitClassify
  /\ InitStore(FALSE)
  /\ InitHorizon
  /\ InitNews
  /\ InitPage
  /\ n_sources = 1
  /\ max_articles = 0
  /\ headless_enabled \in BOOLEAN
  /\ pc = "url"
  /\ src = 1
  /\ cfg \in {c \in SourceConfigs : c.max_articles = 0}
  /\ url_i = 1
  /\ attempt = 0
  /\ html = "none"
  /\ items = <<>>
  /\ seen_urls = {}
  /\ news_items = <<>>
  /\ throttles = 0
  /\ gets = 0
  /\ errors = 0
  /\ last = NoOutcome
  /\ rendered = <<>>
  /\ delays = <<>>
  /\ suppressed = {}
  /\ outcomes = <<>>

NextFetch ==
  /\ \/ FetchBegin
     \/ FetchThrottled
     \/ FetchUnthrottled
     \/ FetchThrottleWake
     \/ RunTick
     \/ FetchGet
     \/ FetchBackoff
     \/ FetchHeadless
     \/ PageSkipped
  /\ UNCHANGED <<hvars, evars, cvars, pvars, kvars, dvars, tvars>>

SpecFetch == InitFetch /\ [][NextFetch]_vars

(***************************************************************************)
(* SpecScrape: whole runs of scrape_company_blog over sources whose rate   *)
(* limit is off (throttle then returns at once and no clock is read) and   *)
(* whose backoff factor is 2.                                              *)
(***************************************************************************)
ScrapeConfigs ==
  {c \in SourceConfigs :
     /\ c.rate_limit.requests = 0
     /\ c.backoff_factor = 2
     /\ \A i \in 1..Len(c.urls) : c.urls[i] = "a.example"}

InitScrape ==
  /\ InitLimiter
  /\ InitHeuristic
  /\ InitExtract
  /\ InitClassify
  /\ InitStore(FALSE)
  /\ InitHorizon
  /\ InitNews
  /\ InitPage
  /\ \E n \in 0..MaxSources, m \in 0..MaxArticles, h \in BOOLEAN : InitRun(n, m, h)

NextScrape ==
  /\ \/ RunNoSources
     \/ RunBegin
     \/ SourceBegin(ScrapeConfigs)
     \/ RunFinish
     \/ FetchBegin
     \/ UrlsExhausted
     \/ FetchUnthrottled
     \/ FetchGet
     \/ FetchBackoff
     \/ FetchHeadless
     \/ PageSkipped
     \/ PageProcessed
     \/ SourceReturn
  /\ UNCHANGED <<hvars, evars, cvars, pvars, kvars, dvars, tvars>>

SpecScrape == InitScrape /\ [][NextScrape]_vars

(***************************************************************************)
(* The heuristic scrape_company_blog (universal_scraper.py:834-984): plain *)
(* sequential GETs of the manual URL or of the default path patterns.      *)
(* SpecHeuristic: its runs, for every max_articles.                        *)
(***************************************************************************)

\* What one GET of a blog_url leads to: an exception (httpx.HTTPError or another), a
\* redirect away from the blog/news section, a status other than 200, or a page
HeuristicOutcomes == {"raises", "redirected", "not_found", "not_ok", "page"}

\* universal_scraper.py:904  articles[:max_articles], for max_articles >= 0
Slice(articles, m) == SubSeq(articles, 1, IF m < Len(articles) THEN m ELSE Len(articles))

\* universal_scraper.py:859-866  blog_urls is the manual URL alone when there is one, else
\* the default path patterns; the loop starts
HeuristicBegin ==
  /\ h_pc = "idle"
  /\ \E manual \in BOOLEAN :
       blog_urls' = IF manual THEN <<"manual">> ELSE [i \in 1..MaxPatterns |-> "pattern"]
  /\ blog_i' = 1
  /\ h_pc' = "loop"
  /\ UNCHANGED <<h_items, h_fetched>>

\* universal_scraper.py:866-973  one pass of the loop: the GET of the blog_url, then
\* `continue` on an exception, a redirect away, a status other than 200 or a page without
\* articles; else the first max_articles articles are appended and the loop is left if
\* news_items is not empty
HeuristicGet ==
  /\ h_pc = "loop"
  /\ blog_i <= Len(blog_urls)
  /\ h_fetched' = Append(h_fetched, blog_i)
  /\ \E o \in HeuristicOutcomes, articles \in ArticleLists :
       LET added == IF o = "page" THEN Slice(articles, max_articles) ELSE <<>>
       IN  /\ o # "page" => articles = <<>>
           /\ h_items' = h_items \o added
           /\ IF o = "page" /\ articles # <<>> /\ h_items \o added # <<>>
              THEN h_pc' = "done" /\ blog_i' = blog_i
              ELSE h_pc' = "loop" /\ blog_i' = blog_i + 1
  /\ UNCHANGED blog_urls

\* universal_scraper.py:866, 975-980  no blog_url left: return news_items
HeuristicFinish ==
  /\ h_pc = "loop"
  /\ blog_i > Len(blog_urls)
  /\ h_pc' = "done"
  /\ UNCHANGED <<blog_urls, blog_i, h_items, h_fetched>>

InitHeuristicRun ==
  /\ InitLimiter
  /\ \E m \in 0..MaxArticles : InitRun(0, m, FALSE)
  /\ InitHeuristic
  /\ InitExtract
  /\ InitClassify
  /\ InitStore(FALSE)
  /\ InitHorizon
  /\ InitNews
  /\ InitPage

NextHeuristic ==
  /\ \/ HeuristicBegin
     \/ HeuristicGet
     \/ HeuristicFinish
  /\ UNCHANGED <<rlvars, svars, evars, cvars, pvars, kvars, dvars, tvars>>

SpecHeuristic == InitHeuristicRun /\ [][NextHeuristic]_vars

(***************************************************************************)
(* Article extraction: _extract_articles and its helpers.  Texts and hosts *)
(* are sequences of characters.  A URL is its host, the first directory of *)
(* its path (section), the last segment of the path (slug) and the         *)
(* extension of the file it names (ext).                                   *)
(* SpecExtract: one call of _extract_articles on every page of the sets    *)
(* below.                                                                  *)
(***************************************************************************)

Letters ==
  <<"a", "b", "c", "d", "e", "f", "g", "h", "i", "j", "k", "l", "m">> \o
  <<"n", "o", "p", "q", "r", "s", "t", "u", "v", "w", "x", "y", "z">>
Capitals ==
  <<"A", "B", "C", "D", "E", "F", "G", "H", "I", "J", "K", "L", "M">> \o
  <<"N", "O", "P", "Q", "R", "S", "T", "U", "V", "W", "X", "Y", "Z">>

IsLower(c) == \E i \in 1..Len(Letters) : Letters[i] = c
IsUpper(c) == \E i \in 1..Len(Capitals) : Capitals[i] = c
UpperOf(c) == IF IsLower(c) THEN Capitals[CHOOSE i \in 1..Len(Letters) : Letters[i] = c] ELSE c
LowerOf(c) == IF IsUpper(c) THEN Letters[CHOOSE i \in 1..Len(Capitals) : Capitals[i] = c] ELSE c

\* str.title(): a letter that follows a letter is lowered, any other letter is raised
TitleCase(text) ==
  [i \in 1..Len(text) |->
     IF i > 1 /\ (IsLower(text[i - 1]) \/ IsUpper(text[i - 1]))
     THEN LowerOf(text[i]) ELSE UpperOf(text[i])]

\* `t in s` of two strings: t occurs in s as a run of consecutive characters
Contains(s, t) == \E i \in 0..(Len(s) - Len(t)) : SubSeq(s, i + 1, i + Len(t)) = t

\* text[:500]
Truncate(text) == SubSeq(text, 1, IF Len(text) < MaxTitleLen THEN Len(text) ELSE MaxTitleLen)

\* A text of n characters
Word(n) == [i \in 1..n |-> "x"]

\* universal_scraper.py:468  the extensions of the files that are no articles
AssetExts == {".jpg", ".jpeg", ".png", ".gif", ".pdf", ".zip", ".mp4", ".mp3", ".svg"}

\* universal_scraper.py:474-488  article_patterns
ArticlePatterns ==
  {"/blog/", "/blogs/", "/news/", "/post/", "/posts/", "/article/", "/articles/",
   "/update/", "/updates/", "/insight/", "/insights/", "/press/", "/press-release/"}

\* universal_scraper.py:354, 381  urljoin(base_url, href): a href without a host is on the
\* host of the base URL
UrlJoin(base_url, href) ==
  [host |-> IF href.host = <<>> THEN base_url.host ELSE href.host,
   section |-> href.section, slug |-> href.slug, ext |-> href.ext]

\* universal_scraper.py:472  the test `base_domain not in link_domain`, negated
SameDomain(link_domain, base_domain) == Contains(link_domain, base_domain)

\* universal_scraper.py:467-489  _looks_like_article
LooksLikeArticle(full_url, base_url) ==
  IF full_url.ext \in AssetExts THEN FALSE
  ELSE IF full_url.host # <<>> /\ ~SameDomain(full_url.host, base_url.host) THEN FALSE
  ELSE full_url.section \in ArticlePatterns

\* universal_scraper.py:346-350  the title of an element: its own text, or the text of its
\* parent when its own is too short
ElementTitle(element) ==
  IF Len(element.text) < MinTitleLen THEN Truncate(element.parent) ELSE element.text

\* Whether a list of candidates holds the URL
HasUrl(articles, url) == \E i \in 1..Len(articles) : articles[i].url = url

\* universal_scraper.py:335-359  the selector strategy, over the selected elements in order
RECURSIVE SelectArticles(_, _, _)
SelectArticles(elements, base_url, articles) ==
  IF elements = <<>> THEN articles
  ELSE LET element == Head(elements)
           title == ElementTitle(element)
           full_url == UrlJoin(base_url, element.href)
       IN  IF element.href = NoHref
           THEN SelectArticles(Tail(elements), base_url, articles)
           ELSE IF Len(title) < MinTitleLen
           THEN SelectArticles(Tail(elements), base_url, articles)
           ELSE IF ~LooksLikeArticle(full_url, base_url)
           THEN SelectArticles(Tail(elements), base_url, articles)
           ELSE IF HasUrl(articles, full_url)
           THEN SelectArticles(Tail(elements), base_url, articles)
           ELSE SelectArticles(Tail(elements), base_url,
                  Append(articles, [url |-> full_url, title |-> Truncate(title),
                                    via |-> "selector"]))

\* universal_scraper.py:401-412  the first title string near the match that is long enough
\* once cleaned; the empty text when there is none
RECURSIVE NearTitle(_)
NearTitle(near) ==
  IF near = <<>> THEN <<>>
  ELSE IF Len(Head(near)) >= MinTitleLen THEN Truncate(Head(near))
  ELSE NearTitle(Tail(near))

\* universal_scraper.py:416  slug.replace("-", " ").replace("_", " ").title()[:500]
Humanize(slug) ==
  Truncate(TitleCase([i \in 1..Len(slug) |-> IF slug[i] \in {"-", "_"} THEN " " ELSE slug[i]]))

\* universal_scraper.py:391-417  _find_title_near_match; the empty text stands for None
FindTitleNearMatch(match) ==
  IF NearTitle(match.near) # <<>> THEN NearTitle(match.near)
  ELSE IF match.slug # <<>> THEN Humanize(match.slug)
  ELSE <<>>

\* universal_scraper.py:369-389  _extract_from_nextjs_scripts, over the href matches of the
\* script bodies in order
RECURSIVE ScanScripts(_, _, _)
ScanScripts(matches, base_url, found) ==
  IF matches = <<>> THEN found
  ELSE LET match == Head(matches)
           full_url == UrlJoin(base_url, [host |-> <<>>, section |-> match.section,
                                          slug |-> match.slug, ext |-> ""])
           title == FindTitleNearMatch(match)
       IN  IF ~LooksLikeArticle(full_url, base_url)
           THEN ScanScripts(Tail(matches), base_url, found)
           ELSE IF title = <<>> \/ HasUrl(found, full_url)
           THEN ScanScripts(Tail(matches), base_url, found)
           ELSE ScanScripts(Tail(matches), base_url,
                  Append(found, [url |-> full_url, title |-> title, via |-> "script"]))

\* NeedsScriptScan that scans the scripts of every page
NeedsScriptScan_Always(articles) == TRUE

\* universal_scraper.py:361  if not articles
NeedsScriptScan(articles) == articles = <<>>

\* universal_scraper.py:363-365  the script candidates whose URL is new are added
RECURSIVE Merge(_, _)
Merge(articles, found) ==
  IF found = <<>> THEN articles
  ELSE IF HasUrl(articles, Head(found).url) THEN Merge(articles, Tail(found))
  ELSE Merge(Append(articles, Head(found)), Tail(found))

\* universal_scraper.py:327-367  _extract_articles
ExtractArticles(p) ==
  LET articles == SelectArticles(p.elements, p.base_url, <<>>)
  IN  IF NeedsScriptScan(articles)
      THEN Merge(articles, ScanScripts(p.matches, p.base_url, <<>>))
      ELSE articles

\* The host of the base URL, and the hosts a link may name: none (a relative link), the
\* base host, a subdomain of it, another domain, and two other domains whose name holds
\* the name of the base host
BaseHost == <<"a", ".", "x">>
LinkHosts ==
  {<<>>, BaseHost, <<"b", ".", "a", ".", "x">>, <<"o", ".", "y">>,
   <<"b", "a", ".", "x">>, <<"a", ".", "x", ".", "y">>}

Foo == <<"f", "o", "o">>
MyPost == <<"m", "y", "-", "p", "o", "s", "t">>

\* The href attributes of the elements: article links on every host, a link to a page
\* that is no article, a link to an image
ElementHrefs ==
  {[host |-> h, section |-> "/blog/", slug |-> Foo, ext |-> ""] : h \in LinkHosts}
    \cup {[host |-> <<>>, section |-> "/about/", slug |-> Foo, ext |-> ""],
          [host |-> <<>>, section |-> "/blog/", slug |-> Foo, ext |-> ".png"]}

\* The own text of an element and the text of its parent, at and under the least length
ElementTexts ==
  {[text |-> Word(MinTitleLen), parent |-> Word(MinTitleLen)],
   [text |-> Word(MinTitleLen - 1), parent |-> Word(MinTitleLen)],
   [text |-> Word(MinTitleLen - 1), parent |-> Word(MinTitleLen - 1)]}

Elements ==
  {[href |-> h, text |-> t.text, parent |-> t.parent] :
     h \in ElementHrefs \cup {NoHref}, t \in ElementTexts}

\* The href matches of the script bodies: the path, and the cleaned title strings found
\* near the match in the order of the title patterns
Matches ==
  {[section |-> pth.section, slug |-> pth.slug, near |-> n] :
     pth \in {[section |-> "/blog/", slug |-> MyPost],
              [section |-> "/blog/", slug |-> <<"a", "i">>],
              [section |-> "/blog/", slug |-> <<>>],
              [section |-> "/blogs/", slug |-> MyPost]},
     n \in {<<>>, <<Word(MinTitleLen - 1)>>, <<Word(MinTitleLen - 1), Word(MinTitleLen)>>}}

Pages ==
  [base_url : {[host |-> BaseHost]},
   elements : UNION {[1..n -> Elements] : n \in 0..MaxElements},
   matches : UNION {[1..n -> Matches] : n \in 0..MaxMatches}]

\* universal_scraper.py:231  _extract_articles is called on a page
ExtractBegin ==
  /\ e_pc = "idle"
  /\ \E p \in Pages : page' = p
  /\ e_pc' = "page"
  /\ UNCHANGED candidates

\* universal_scraper.py:327-367  the call returns the candidates
ExtractReturn ==
  /\ e_pc = "page"
  /\ candidates' = ExtractArticles(page)
  /\ e_pc' = "done"
  /\ UNCHANGED page

InitExtractRun ==
  /\ InitLimiter
  /\ InitRun(0, 0, FALSE)
  /\ InitHeuristic
  /\ InitExtract
  /\ InitClassify
  /\ InitStore(FALSE)
  /\ InitHorizon
  /\ InitNews
  /\ InitPage

NextExtract ==
  /\ \/ ExtractBegin
     \/ ExtractReturn
  /\ UNCHANGED <<rlvars, svars, hvars, cvars, pvars, kvars, dvars, tvars>>

SpecExtract == InitExtractRun /\ [][NextExtract]_vars

(***************************************************************************)
(* _infer_category.  SpecClassify: one call on every title of the set      *)
(* below.                                                                  *)
(***************************************************************************)

\* Lower that leaves the title as it is
Lower_Identity(text) == text

\* universal_scraper.py:444  title.lower()
Lower(text) == [i \in 1..Len(text) |-> LowerOf(text[i])]

\* universal_scraper.py:445-461  mapping: the keyword groups and their categories, in order
Mapping ==
  <<
    [keywords |-> <<<<"p", "r", "i", "c", "e">>,
                    <<"p", "r", "i", "c", "i", "n", "g">>,
                    <<"p", "l", "a", "n">>,
                    <<"b", "i", "l", "l", "i", "n", "g">>>>,
     category |-> "PRICING_CHANGE"],
    [keywords |-> <<<<"f", "u", "n", "d", "i", "n", "g">>,
                    <<"s", "e", "e", "d">>,
                    <<"s", "e", "r", "i", "e", "s", " ", "a">>,
                    <<"s", "e", "r", "i", "e", "s", " ", "b">>,
                    <<"i", "n", "v", "e", "s", "t", "m", "e", "n", "t">>>>,
     category |-> "FUNDING_NEWS"],
    [keywords |-> <<<<"r", "e", "l", "e", "a", "s", "e">>,
                    <<"l", "a", "u", "n", "c", "h", "e", "d">>,
                    <<"l", "a", "u", "n", "c", "h">>,
                    <<"i", "n", "t", "r", "o", "d", "u", "c", "i", "n", "g">>>>,
     category |-> "PRODUCT_UPDATE"],
    [keywords |-> <<<<"s", "e", "c", "u", "r", "i", "t", "y">>,
                    <<"v", "u", "l", "n", "e", "r", "a", "b", "i", "l", "i", "t", "y">>,
                    <<"p", "a", "t", "c", "h">>,
                    <<"c", "v", "e">>>>,
     category |-> "SECURITY_UPDATE"],
    [keywords |-> <<<<"a", "p", "i">>,
                    <<"s", "d", "k">>>>,
     category |-> "API_UPDATE"],
    [keywords |-> <<<<"i", "n", "t", "e", "g", "r", "a", "t", "i", "o", "n">>,
                    <<"i", "n", "t", "e", "g", "r", "a", "t", "e", "s", " ", "w", "i", "t", "h">>>>,
     category |-> "INTEGRATION"],
    [keywords |-> <<<<"d", "e", "p", "r", "e", "c", "a", "t", "e", "d">>,
                    <<"d", "e", "p", "r", "e", "c", "a", "t", "i", "o", "n">>,
                    <<"s", "u", "n", "s", "e", "t">>>>,
     category |-> "FEATURE_DEPRECATION"],
    [keywords |-> <<<<"a", "c", "q", "u", "i", "r", "e", "s">>,
                    <<"a", "c", "q", "u", "i", "s", "i", "t", "i", "o", "n">>,
                    <<"m", "e", "r", "g", "e", "r">>>>,
     category |-> "ACQUISITION"],
    [keywords |-> <<<<"p", "a", "r", "t", "n", "e", "r">>,
                    <<"p", "a", "r", "t", "n", "e", "r", "s", "h", "i", "p">>>>,
     category |-> "PARTNERSHIP"],
    [keywords |-> <<<<"m", "o", "d", "e", "l">>,
                    <<"g", "p", "t">>,
                    <<"l", "l", "a", "m", "a">>>>,
     category |-> "MODEL_RELEASE"],
    [keywords |-> <<<<"p", "e", "r", "f", "o", "r", "m", "a", "n", "c", "e">>,
                    <<"f", "a", "s", "t", "e", "r">>,
                    <<"i", "m", "p", "r", "o", "v", "e", "m", "e", "n", "t">>>>,
     category |-> "PERFORMANCE_IMPROVEMENT"],
    [keywords |-> <<<<"p", "a", "p", "e", "r">>,
                    <<"a", "r", "x", "i", "v">>,
                    <<"r", "e", "s", "e", "a", "r", "c", "h">>>>,
     category |-> "RESEARCH_PAPER"],
    [keywords |-> <<<<"w", "e", "b", "i", "n", "a", "r">>,
                    <<"e", "v", "e", "n", "t">>,
                    <<"c", "o", "n", "f", "e", "r", "e", "n", "c", "e">>,
                    <<"m", "e", "e", "t", "u", "p">>>>,
     category |-> "COMMUNITY_EVENT"],
    [keywords |-> <<<<"s", "t", "r", "a", "t", "e", "g", "y">>,
                    <<"v", "i", "s", "i", "o", "n">>,
                    <<"r", "o", "a", "d", "m", "a", "p">>>>,
     category |-> "STRATEGIC_ANNOUNCEMENT"],
    [keywords |-> <<<<"t", "e", "c", "h", "n", "i", "c", "a", "l">>,
                    <<"a", "r", "c", "h", "i", "t", "e", "c", "t", "u", "r", "e">>,
                    <<"i", "n", "f", "r", "a">>,
                    <<"i", "n", "f", "r", "a", "s", "t", "r", "u", "c", "t", "u", "r", "e">>>>,
     category |-> "TECHNICAL_UPDATE"]
  >>

\* universal_scraper.py:463  any(keyword in lower for keyword in keywords)
AnyKeyword(keywords, lower) ==
  \E i \in 1..Len(keywords) : Contains(lower, keywords[i])

\* universal_scraper.py:462-465  the loop over the mapping: the category of the first
\* group with a keyword in the lowered title, else None
RECURSIVE FirstCategory(_, _)
FirstCategory(mapping, lower) ==
  IF mapping = <<>> THEN "none"
  ELSE IF AnyKeyword(Head(mapping).keywords, lower) THEN Head(mapping).category
  ELSE FirstCategory(Tail(mapping), lower)

\* universal_scraper.py:443-465  _infer_category
InferCategory(text) == FirstCategory(Mapping, Lower(text))

\* The words of the titles
Words ==
  {<<"P", "r", "i", "c", "i", "n", "g">>, <<"L", "A", "U", "N", "C", "H">>,
   <<"l", "a", "u", "n", "c", "h">>, <<"F", "u", "n", "d", "i", "n", "g">>,
   <<"R", "a", "p", "i", "d">>, <<"h", "e", "l", "l", "o">>,
   <<"G", "P", "T">>, <<"R", "o", "a", "d", "m", "a", "p">>}

\* The words of a list with a space between them
RECURSIVE Join(_)
Join(ws) ==
  IF ws = <<>> THEN <<>>
  ELSE IF Len(ws) = 1 THEN Head(ws)
  ELSE Head(ws) \o <<" ">> \o Join(Tail(ws))

\* The titles: up to MaxWords words
Titles == {Join(ws) : ws \in UNION {[1..n -> Words] : n \in 0..MaxWords}}

\* universal_scraper.py:255  _infer_category is called on a title
ClassifyBegin ==
  /\ c_pc = "idle"
  /\ \E t \in Titles : c_title' = t
  /\ c_pc' = "title"
  /\ UNCHANGED category

\* universal_scraper.py:443-465  the call returns
ClassifyReturn ==
  /\ c_pc = "title"
  /\ category' = InferCategory(c_title)
  /\ c_pc' = "done"
  /\ UNCHANGED c_title

InitClassifyRun ==
  /\ InitLimiter
  /\ InitRun(0, 0, FALSE)
  /\ InitHeuristic
  /\ InitExtract
  /\ InitClassify
  /\ InitStore(FALSE)
  /\ InitHorizon
  /\ InitNews
  /\ InitPage

NextClassify ==
  /\ \/ ClassifyBegin
     \/ ClassifyReturn
  /\ UNCHANGED <<rlvars, svars, hvars, evars, pvars, kvars, dvars, tvars>>

SpecClassify == InitClassifyRun /\ [][NextClassify]_vars

(***************************************************************************)
(* Snapshot store: _persist_snapshot, step by step as the file system sees *)
(* it.  SpecPersist: one process calls it again and again.  SpecSnapshot:  *)
(* two processes call it at the same time.                                 *)
(***************************************************************************)

Digits == {"0", "1", "2", "3", "4", "5", "6", "7", "8", "9"}

\* universal_scraper.py:504  the characters the pattern [^a-zA-Z0-9\-] leaves alone
Kept(c) == IsLower(c) \/ IsUpper(c) \/ c \in Digits \/ c = "-"

\* universal_scraper.py:504  re.sub(r"[^a-zA-Z0-9\-]+", "-", ...): every run of other
\* characters becomes one "-"
RECURSIVE Dashed(_, _)
Dashed(value, in_run) ==
  IF value = <<>> THEN <<>>
  ELSE IF Kept(Head(value)) THEN <<Head(value)>> \o Dashed(Tail(value), FALSE)
  ELSE IF in_run THEN Dashed(Tail(value), TRUE)
  ELSE <<"-">> \o Dashed(Tail(value), TRUE)

\* str.strip("-")
RECURSIVE Strip(_)
Strip(value) ==
  IF value = <<>> THEN <<>>
  ELSE IF Head(value) = "-" THEN Strip(Tail(value))
  ELSE IF value[Len(value)] = "-" THEN Strip(SubSeq(value, 1, Len(value) - 1))
  ELSE value

\* universal_scraper.py:502-504  _slugify
Slugify(value) == Strip(Dashed(Lower(value), FALSE))

\* universal_scraper.py:431-432  the sha256 of f"{url}|{html}": the digest is given by the
\* text it is taken of (sha256 is taken to have no collisions)
Digest(url, html_text) == url \o <<"|">> \o html_text

\* universal_scraper.py:433  path = snapshot_dir / slug / f"{source_id}_{digest}.html"
PathOf(a) ==
  [slug |-> Slugify(a.company_name), source_id |-> a.source_id,
   digest |-> Digest(a.url, a.html)]

\* PathExists that never finds the file
PathExists_Never(path) == FALSE

\* universal_scraper.py:436  path.exists()
PathExists(path) == path \in DOMAIN files

\* The arguments of the calls: two company names with one slug and a third one, two
\* pages with two bodies
CompanyNames == {<<"A", "c">>, <<"a", "!", "c">>, <<"b">>}
PersistArgs ==
  [company_name : CompanyNames, source_id : {"blog", "news"},
   url : {<<"u">>, <<"v">>}, html : {<<"h">>, <<"g">>}]

\* The arguments of the calls of two crawls of one page of one source
SnapshotArgs ==
  {a \in PersistArgs :
     a.company_name = <<"A", "c">> /\ a.source_id = "blog" /\ a.url = <<"u">>}

\* The number of calls made so far
Persists == Len(persisted) + Cardinality({w \in Writers : w_pc[w] # "idle"})

\* universal_scraper.py:426-427  snapshots are disabled: return None
PersistDisabled(w, as) ==
  /\ w_pc[w] = "idle"
  /\ ~snapshots_enabled
  /\ Persists < MaxPersists
  /\ \E a \in as : persisted' = Append(persisted, [by |-> w, args |-> a, result |-> NoPath,
                                                failed |-> FALSE])
  /\ UNCHANGED <<snapshots_enabled, files, dirs, w_pc, w_arg, writes>>

\* universal_scraper.py:426-433  snapshots are enabled: the path is computed
PersistBegin(w, as) ==
  /\ w_pc[w] = "idle"
  /\ snapshots_enabled
  /\ Persists < MaxPersists
  /\ \E a \in as : w_arg' = [w_arg EXCEPT ![w] = a]
  /\ w_pc' = [w_pc EXCEPT ![w] = "mkdir"]
  /\ UNCHANGED <<snapshots_enabled, files, dirs, writes, persisted>>

\* universal_scraper.py:435  path.parent.mkdir(parents=True, exist_ok=True)
PersistMkdir(w) ==
  /\ w_pc[w] = "mkdir"
  /\ dirs' = dirs \cup {PathOf(w_arg[w]).slug}
  /\ w_pc' = [w_pc EXCEPT ![w] = "exists"]
  /\ UNCHANGED <<snapshots_enabled, files, w_arg, writes, persisted>>

\* universal_scraper.py:436  if not path.exists()
PersistExists(w) ==
  /\ w_pc[w] = "exists"
  /\ w_pc' = [w_pc EXCEPT ![w] = IF PathExists(PathOf(w_arg[w])) THEN "return" ELSE "open"]
  /\ UNCHANGED <<snapshots_enabled, files, dirs, w_arg, writes, persisted>>

\* universal_scraper.py:437  path.write_text opens the file for writing: the file is
\* created, or emptied when it exists
PersistOpen(w) ==
  /\ w_pc[w] = "open"
  /\ LET path == PathOf(w_arg[w]) IN
       /\ files' = [q \in DOMAIN files \cup {path} |-> IF q = path THEN <<>> ELSE files[q]]
       /\ writes' = [q \in DOMAIN writes \cup {path} |->
                       IF q = path
                       THEN (IF path \in DOMAIN writes THEN writes[path] ELSE 0) + 1
                       ELSE writes[q]]
  /\ w_pc' = [w_pc EXCEPT ![w] = "write"]
  /\ UNCHANGED <<snapshots_enabled, dirs, w_arg, persisted>>

\* universal_scraper.py:437  path.write_text writes the html and closes the file
PersistWrite(w) ==
  /\ w_pc[w] = "write"
  /\ files' = [files EXCEPT ![PathOf(w_arg[w])] = w_arg[w].html]
  /\ w_pc' = [w_pc EXCEPT ![w] = "return"]
  /\ UNCHANGED <<snapshots_enabled, dirs, w_arg, writes, persisted>>

\* universal_scraper.py:438  return str(path.resolve())
PersistReturn(w) ==
  /\ w_pc[w] = "return"
  /\ persisted' = Append(persisted, [by |-> w, args |-> w_arg[w],
                                     result |-> PathOf(w_arg[w]), failed |-> FALSE])
  /\ w_pc' = [w_pc EXCEPT ![w] = "idle"]
  /\ w_arg' = [w_arg EXCEPT ![w] = NoSnapshot]
  /\ UNCHANGED <<snapshots_enabled, files, dirs, writes>>

InitPersist ==
  /\ InitLimiter
  /\ InitRun(0, 0, FALSE)
  /\ InitHeuristic
  /\ InitExtract
  /\ InitClassify
  /\ \E enabled \in BOOLEAN : InitStore(enabled)
  /\ InitHorizon
  /\ InitNews
  /\ InitPage

NextPersist ==
  /\ \/ PersistDisabled("w1", PersistArgs)
     \/ PersistBegin("w1", PersistArgs)
     \/ PersistMkdir("w1")
     \/ PersistExists("w1")
     \/ PersistOpen("w1")
     \/ PersistWrite("w1")
     \/ PersistReturn("w1")
  /\ UNCHANGED <<rlvars, svars, hvars, evars, cvars, kvars, dvars, tvars>>

SpecPersist == InitPersist /\ [][NextPersist]_vars

NextSnapshot ==
  /\ \/ \E w \in Writers : PersistDisabled(w, SnapshotArgs)
     \/ \E w \in Writers : PersistBegin(w, SnapshotArgs)
     \/ \E w \in Writers : PersistMkdir(w)
     \/ \E w \in Writers : PersistExists(w)
     \/ \E w \in Writers : PersistOpen(w)
     \/ \E w \in Writers : PersistWrite(w)
     \/ \E w \in Writers : PersistReturn(w)
  /\ UNCHANGED <<rlvars, svars, hvars, evars, cvars, kvars, dvars, tvars>>

SpecSnapshot == InitPersist /\ [][NextSnapshot]_vars

(***************************************************************************)
(* SpecCrawl: whole runs of scrape_company_blog in which each page is      *)
(* taken step by step: _persist_snapshot on a file system whose mkdir and  *)
(* write_text can fail, _extract_articles, and for each article the        *)
(* seen-URL test, _infer_category and the append.                          *)
(***************************************************************************)

\* The run is one of the processes that persist snapshots
Crawler == "w1"

\* universal_scraper.py:435, 439  path.parent.mkdir raises (disk, permissions)
PersistMkdirFails(w) ==
  /\ w_pc[w] = "mkdir"
  /\ w_pc' = [w_pc EXCEPT ![w] = "except"]
  /\ UNCHANGED <<snapshots_enabled, files, dirs, w_arg, writes, persisted>>

\* universal_scraper.py:437, 439  path.write_text raises before the file is opened
PersistOpenFails(w) ==
  /\ w_pc[w] = "open"
  /\ w_pc' = [w_pc EXCEPT ![w] = "except"]
  /\ UNCHANGED <<snapshots_enabled, files, dirs, w_arg, writes, persisted>>

\* universal_scraper.py:437, 439  path.write_text raises once the file is open (disk
\* full): the file stays as the open left it
PersistWriteFails(w) ==
  /\ w_pc[w] = "write"
  /\ w_pc' = [w_pc EXCEPT ![w] = "except"]
  /\ UNCHANGED <<snapshots_enabled, files, dirs, w_arg, writes, persisted>>

\* FailureResult that still hands out the path
FailureResult_Path(path) == path

\* universal_scraper.py:441  return None
FailureResult(path) == NoPath

\* universal_scraper.py:439-441  except Exception: log a warning, return None
PersistExcept(w) ==
  /\ w_pc[w] = "except"
  /\ persisted' = Append(persisted, [by |-> w, args |-> w_arg[w],
                                     result |-> FailureResult(PathOf(w_arg[w])),
                                     failed |-> TRUE])
  /\ w_pc' = [w_pc EXCEPT ![w] = "idle"]
  /\ w_arg' = [w_arg EXCEPT ![w] = NoSnapshot]
  /\ UNCHANGED <<snapshots_enabled, files, dirs, writes>>

\* source_config.id of the sources of the run and the final_url of their pages
SourceId(i) == IF i = 1 THEN "blog" ELSE IF i = 2 THEN "news" ELSE "press"
PageUrl(i) == IF i = 1 THEN <<"u">> ELSE IF i = 2 THEN <<"v">> ELSE <<"w">>

\* universal_scraper.py:228  the arguments of _persist_snapshot for the page at hand
PageArgs ==
  [company_name |-> <<"A", "c">>, source_id |-> SourceId(src), url |-> PageUrl(url_i),
   html |-> <<"h">>]

\* The title the pages give an article: one with a keyword, one without
TitleOf(url) ==
  IF url = "x1" THEN <<"P", "r", "i", "c", "i", "n", "g">> ELSE <<"h", "e", "l", "l", "o">>

\* The lists _extract_articles can return for a page: articles with url and title, no
\* URL twice
PageLists ==
  {[i \in 1..Len(l) |-> [url |-> l[i], title |-> TitleOf(l[i])]] : l \in ArticleLists}

\* universal_scraper.py:265  NewsCategory.PRODUCT_UPDATE.value
DefaultCategory == "PRODUCT_UPDATE"

\* svars but pc
runState == <<inputs, fetchvars, runvars>>

\* The locals of _scrape_source once the page is done with
PageOver ==
  /\ snapshot_path' = NoPath
  /\ page_articles' = <<>>
  /\ inferred_category' = "none"
  /\ steps' = <<>>

\* universal_scraper.py:228, 426-427  _persist_snapshot with snapshots disabled: None
SnapshotDisabled ==
  /\ pc = "fetched"
  /\ html = "html"
  /\ ~snapshots_enabled
  /\ persisted' = Append(persisted, [by |-> Crawler, args |-> PageArgs, result |-> NoPath,
                                     failed |-> FALSE])
  /\ snapshot_path' = NoPath
  /\ steps' = Append(steps, "snapshot")
  /\ pc' = "extract"
  /\ Quiet
  /\ UNCHANGED <<runState, snapshots_enabled, files, dirs, w_pc, w_arg, writes,
                 page_articles, inferred_category>>

\* universal_scraper.py:228, 426-433  _persist_snapshot is entered with snapshots enabled
SnapshotBegin ==
  /\ pc = "fetched"
  /\ html = "html"
  /\ snapshots_enabled
  /\ w_pc[Crawler] = "idle"
  /\ w_arg' = [w_arg EXCEPT ![Crawler] = PageArgs]
  /\ w_pc' = [w_pc EXCEPT ![Crawler] = "mkdir"]
  /\ steps' = Append(steps, "snapshot")
  /\ pc' = "snapshot"
  /\ Quiet
  /\ UNCHANGED <<runState, snapshots_enabled, files, dirs, writes, persisted,
                 snapshot_path, page_articles, inferred_category>>

\* universal_scraper.py:434-437  a step of the run inside _persist_snapshot
SnapshotStep(step) ==
  /\ pc = "snapshot"
  /\ step
  /\ UNCHANGED <<rlvars, svars, kvars>>

\* universal_scraper.py:228, 438-441  _persist_snapshot returns to _scrape_source: the
\* path, or None after an exception
SnapshotReturn(return) ==
  /\ pc = "snapshot"
  /\ return
  /\ snapshot_path' = persisted'[Len(persisted')].result
  /\ pc' = "extract"
  /\ Quiet
  /\ UNCHANGED <<runState, page_articles, inferred_category, steps>>

\* universal_scraper.py:229-240  the page is parsed and _extract_articles returns its
\* articles; with none, continue with the next URL
PageExtract ==
  /\ pc = "extract"
  /\ \E found \in PageLists :
       IF found = <<>>
       THEN /\ url_i' = url_i + 1
            /\ pc' = "url"
            /\ FetchOver
            /\ PageOver
       ELSE /\ page_articles' = found
            /\ steps' = Append(steps, "extract")
            /\ pc' = "article"
            /\ UNCHANGED <<url_i, fetchvars, snapshot_path, inferred_category>>
  /\ Quiet
  /\ UNCHANGED <<inputs, src, cfg, items, seen_urls, news_items, suppressed, outcomes, pvars>>

\* universal_scraper.py:250-252  the article's URL is in seen_urls: continue
ArticleSeen ==
  /\ pc = "article"
  /\ page_articles # <<>>
  /\ IsSeen(Head(page_articles).url, seen_urls)
  /\ suppressed' = suppressed \cup {Head(page_articles).url}
  /\ page_articles' = Tail(page_articles)
  /\ Quiet
  /\ UNCHANGED <<inputs, fetchvars, pc, src, cfg, url_i, items, seen_urls, news_items,
                 outcomes, pvars, snapshot_path, inferred_category, steps>>

\* universal_scraper.py:251-255  a new URL: seen_urls.add, then _infer_category(title)
ArticleClassify ==
  /\ pc = "article"
  /\ page_articles # <<>>
  /\ ~IsSeen(Head(page_articles).url, seen_urls)
  /\ seen_urls' = seen_urls \cup {Head(page_articles).url}
  /\ inferred_category' = InferCategory(Head(page_articles).title)
  /\ steps' = Append(steps, "classify")
  /\ pc' = "emit"
  /\ Quiet
  /\ UNCHANGED <<inputs, fetchvars, src, cfg, url_i, items, news_items, suppressed,
                 outcomes, pvars, snapshot_path, page_articles>>

\* universal_scraper.py:257-278  items.append of the article with its category and the
\* snapshot path; both loops are left once len(items) >= max_articles
ArticleEmit ==
  /\ pc = "emit"
  /\ items' = Append(items,
                     [source_url |-> Head(page_articles).url, source |-> src,
                      title |-> Head(page_articles).title,
                      category |-> IF inferred_category # "none"
                                   THEN inferred_category ELSE DefaultCategory,
                      raw_snapshot_url |-> snapshot_path, page |-> url_i])
  /\ IF Len(items) + 1 >= PerSourceLimit(cfg)
     THEN /\ pc' = "return"
          /\ FetchOver
          /\ PageOver
     ELSE /\ pc' = "article"
          /\ page_articles' = Tail(page_articles)
          /\ inferred_category' = "none"
          /\ steps' = Append(steps, "emit")
          /\ UNCHANGED <<fetchvars, snapshot_path>>
  /\ Quiet
  /\ UNCHANGED <<inputs, src, cfg, url_i, seen_urls, news_items, suppressed, outcomes,
                 pvars>>

\* universal_scraper.py:250, 277-278  the articles of the page are exhausted: leave the
\* loop over the URLs if len(items) >= max_articles, else take the next URL
PageDone ==
  /\ pc = "article"
  /\ page_articles = <<>>
  /\ IF Len(items) >= PerSourceLimit(cfg)
     THEN pc' = "return" /\ url_i' = url_i
     ELSE pc' = "url" /\ url_i' = url_i + 1
  /\ FetchOver
  /\ PageOver
  /\ Quiet
  /\ UNCHANGED <<inputs, src, cfg, items, seen_urls, news_items, suppressed, outcomes,
                 pvars>>

\* The sources of the crawls: one try per URL, no headless rendering, no cap of their own
CrawlConfigs ==
  {c \in ScrapeConfigs : c.attempts = -1 /\ ~c.use_headless /\ c.max_articles = 0}

InitCrawl ==
  /\ InitLimiter
  /\ InitHeuristic
  /\ InitExtract
  /\ InitClassify
  /\ \E enabled \in BOOLEAN : InitStore(enabled)
  /\ InitHorizon
  /\ InitNews
  /\ InitPage
  /\ \E n \in 1..MaxSources, m \in 1..MaxArticles : InitRun(n, m, FALSE)

NextCrawl ==
  /\ \/ RunBegin /\ UNCHANGED <<pvars, kvars>>
     \/ SourceBegin(CrawlConfigs) /\ UNCHANGED <<pvars, kvars>>
     \/ RunFinish /\ UNCHANGED <<pvars, kvars>>
     \/ FetchBegin /\ UNCHANGED <<pvars, kvars>>
     \/ UrlsExhausted /\ UNCHANGED <<pvars, kvars>>
     \/ FetchUnthrottled /\ UNCHANGED <<pvars, kvars>>
     \/ FetchGet /\ UNCHANGED <<pvars, kvars>>
     \/ PageSkipped /\ UNCHANGED <<pvars, kvars>>
     \/ SnapshotDisabled
     \/ SnapshotBegin
     \/ SnapshotStep(PersistMkdir(Crawler))
     \/ SnapshotStep(PersistMkdirFails(Crawler))
     \/ SnapshotStep(PersistExists(Crawler))
     \/ SnapshotStep(PersistOpen(Crawler))
     \/ SnapshotStep(PersistOpenFails(Crawler))
     \/ SnapshotStep(PersistWrite(Crawler))
     \/ SnapshotStep(PersistWriteFails(Crawler))
     \/ SnapshotReturn(PersistReturn(Crawler))
     \/ SnapshotReturn(PersistExcept(Crawler))
     \/ PageExtract
     \/ ArticleSeen
     \/ ArticleClassify
     \/ ArticleEmit
     \/ PageDone
     \/ SourceReturn /\ UNCHANGED <<pvars, kvars>>
  /\ UNCHANGED <<hvars, evars, cvars, dvars, tvars>>

SpecCrawl == InitCrawl /\ [][NextCrawl]_vars

(***************************************************************************)
(* NewsIngestionService.create_news_item on the news_items table, and      *)
(* NewsScraperService.ingest_company_news.  A session reads the committed  *)
(* rows; the database accepts every insert (the table has no constraint on *)
(* source_url).  SpecCreate: one session calls create_news_item again and  *)
(* again.  SpecSessions: two sessions call it at the same time.            *)
(* SpecIngest: ingest_company_news runs again and again on the same pages. *)
(***************************************************************************)

\* ValidPayload that accepts every payload
ValidPayload_Any(data) == TRUE

\* ingestion_service.py:131, test_ingestion_service.py:105-112  NewsCreateSchema(**data)
\* accepts the payload: it has a title
ValidPayload(data) == data.title # "none"

\* Matching that finds no row
Matching_None(url) == {}

\* news_repository.py:44-48  the rows select ... where source_url == url finds
Matching(url) == {i \in 1..Len(rows) : rows[i].source_url = url}

\* The call of session s ends in the given way with the given record
Ended(s, how, id) ==
  /\ results' = Append(results, [by |-> s, data |-> n_arg[s], how |-> how, id |-> id,
                                 before |-> n_before[s], after |-> Len(rows')])
  /\ n_pc' = [n_pc EXCEPT ![s] = "idle"]
  /\ n_arg' = [n_arg EXCEPT ![s] = NoPayload]
  /\ n_before' = [n_before EXCEPT ![s] = 0]

\* ingestion_service.py:39-42  create_news_item is called with one of the payloads
CreateBegin(s, payloads) ==
  /\ n_pc[s] = "idle"
  /\ \E data \in payloads : n_arg' = [n_arg EXCEPT ![s] = data]
  /\ n_pc' = [n_pc EXCEPT ![s] = "validate"]
  /\ n_before' = [n_before EXCEPT ![s] = Len(rows)]
  /\ UNCHANGED <<rows, results>>

\* ingestion_service.py:42, 129-181, 73-74  the payload is invalid: ValidationError is
\* raised and passed on
CreateInvalid(s) ==
  /\ n_pc[s] = "validate"
  /\ ~ValidPayload(n_arg[s])
  /\ UNCHANGED rows
  /\ Ended(s, "ValidationError", 0)

\* ingestion_service.py:42-44  the payload is valid
CreateValidated(s) ==
  /\ n_pc[s] = "validate"
  /\ ValidPayload(n_arg[s])
  /\ n_pc' = [n_pc EXCEPT ![s] = "lookup"]
  /\ UNCHANGED <<rows, n_arg, results, n_before>>

\* ingestion_service.py:44-48, news_repository.py:43-50  fetch_by_url: one row is
\* returned with _was_created False; scalar_one_or_none raises on several rows, which
\* ends in rollback and NewsServiceError (75-80); with no row the call goes on
CreateLookup(s) ==
  /\ n_pc[s] = "lookup"
  /\ UNCHANGED rows
  /\ LET found == Matching(n_arg[s].source_url) IN
       IF found = {}
       THEN /\ n_pc' = [n_pc EXCEPT ![s] = "insert"]
            /\ UNCHANGED <<n_arg, results, n_before>>
       ELSE IF Cardinality(found) = 1
       THEN Ended(s, "existing", rows[CHOOSE i \in found : TRUE].id)
       ELSE Ended(s, "NewsServiceError", 0)

\* ingestion_service.py:51-72, 0001_initial_schema.py:118-135  NewsItem(**validated) is
\* added, flushed and committed, and returned with _was_created True; the table has a
\* primary key on id and no unique constraint on source_url, so the insert is accepted
CreateInsert(s) ==
  /\ n_pc[s] = "insert"
  /\ rows' = Append(rows, [id |-> Len(rows) + 1, source_url |-> n_arg[s].source_url,
                           title |-> n_arg[s].title])
  /\ Ended(s, "created", Len(rows) + 1)

\* The calls made so far
Creates == Len(results) + Cardinality({s \in Sessions : n_pc[s] # "idle"})

\* A client calls create_news_item on session s
ClientCreate(s) ==
  /\ Creates < MaxCreates
  /\ CreateBegin(s, Payloads)

\* scraper_service.py:43-58  items: the lists provider.scrape_company returns
ScrapedLists == UNION {[1..n -> Payloads] : n \in 0..MaxItems}

\* scraper_service.py:32-46  ingest_company_news is called: the provider scrapes the pages
IngestBegin ==
  /\ i_pc = "idle"
  /\ Len(reports) < MaxRuns
  /\ i_pc' = "loop"
  /\ item_i' = 1
  /\ ingested' = 0
  /\ UNCHANGED <<rows, n_pc, n_arg, results, n_before, scraped, reports>>

\* scraper_service.py:47-59  the next item: create_news_item(payload) is awaited
IngestItem ==
  /\ i_pc = "loop"
  /\ item_i <= Len(scraped)
  /\ CreateBegin("s1", {scraped[item_i]})
  /\ i_pc' = "await"
  /\ UNCHANGED <<scraped, item_i, ingested, reports>>

\* WasCreated that counts every record returned
WasCreated_Returned(how) == how \in {"created", "existing"}

\* scraper_service.py:68  getattr(news_item, "_was_created", False)
WasCreated(how) == how = "created"

\* scraper_service.py:59-69  create_news_item returned or raised: an exception is logged,
\* a record with _was_created True is counted
IngestResume ==
  /\ i_pc = "await"
  /\ n_pc["s1"] = "idle"
  /\ ingested' = IF WasCreated(results[Len(results)].how) THEN ingested + 1 ELSE ingested
  /\ item_i' = item_i + 1
  /\ i_pc' = "loop"
  /\ UNCHANGED <<rows, n_pc, n_arg, results, n_before, scraped, reports>>

\* scraper_service.py:71-75  the items are exhausted: provider.close(), return ingested
IngestReturn ==
  /\ i_pc = "loop"
  /\ item_i > Len(scraped)
  /\ reports' = Append(reports, [ingested |-> ingested,
                                 stored |-> {rows[i].source_url : i \in 1..Len(rows)}])
  /\ i_pc' = "idle"
  /\ item_i' = 0
  /\ ingested' = 0
  /\ UNCHANGED <<rows, n_pc, n_arg, results, n_before, scraped>>

\* The frame of the steps of create_news_item
ingestState == <<i_pc, scraped, item_i, ingested, reports>>

InitCreate ==
  /\ InitLimiter
  /\ InitRun(0, 0, FALSE)
  /\ InitHeuristic
  /\ InitExtract
  /\ InitClassify
  /\ InitStore(FALSE)
  /\ InitHorizon
  /\ InitPage
  /\ InitNews

NextCreate ==
  /\ \/ ClientCreate("s1")
     \/ CreateInvalid("s1")
     \/ CreateValidated("s1")
     \/ CreateLookup("s1")
     \/ CreateInsert("s1")
  /\ UNCHANGED <<ingestState, rlvars, svars, hvars, evars, cvars, pvars, kvars, tvars>>

SpecCreate == InitCreate /\ [][NextCreate]_vars

NextSessions ==
  /\ \/ \E s \in Sessions : ClientCreate(s)
     \/ \E s \in Sessions : CreateInvalid(s)
     \/ \E s \in Sessions : CreateValidated(s)
     \/ \E s \in Sessions : CreateLookup(s)
     \/ \E s \in Sessions : CreateInsert(s)
  /\ UNCHANGED <<ingestState, rlvars, svars, hvars, evars, cvars, pvars, kvars, tvars>>

SpecSessions == InitCreate /\ [][NextSessions]_vars

\* The pages are the same in every run: so is the list the provider returns
InitIngest ==
  /\ InitLimiter
  /\ InitRun(0, 0, FALSE)
  /\ InitHeuristic
  /\ InitExtract
  /\ InitClassify
  /\ InitStore(FALSE)
  /\ InitHorizon
  /\ InitPage
  /\ rows = <<>>
  /\ n_pc = [s \in Sessions |-> "idle"]
  /\ n_arg = [s \in Sessions |-> NoPayload]
  /\ results = <<>>
  /\ n_before = [s \in Sessions |-> 0]
  /\ i_pc = "idle"
  /\ scraped \in ScrapedLists
  /\ item_i = 0
  /\ ingested = 0
  /\ reports = <<>>

NextIngest ==
  /\ \/ IngestBegin
     \/ IngestItem
     \/ CreateInvalid("s1") /\ UNCHANGED ingestState
     \/ CreateValidated("s1") /\ UNCHANGED ingestState
     \/ CreateLookup("s1") /\ UNCHANGED ingestState
     \/ CreateInsert("s1") /\ UNCHANGED ingestState
     \/ IngestResume
     \/ IngestReturn
  /\ UNCHANGED <<rlvars, svars, hvars, evars, cvars, pvars, kvars, tvars>>

SpecIngest == InitIngest /\ [][NextIngest]_vars

(***************************************************************************)
(* Claims about RateLimiter, checked under SpecRL                          *)
(***************************************************************************)

\* Every throttled call for key k so far passed the policy pol
Uniform(k, pol) == used[k] = {pol}

\* Number of admissions of key k with a timestamp in [s, s + w)
AdmissionsIn(k, s, w) ==
  Cardinality({i \in 1..Len(admitted[k]) : s <= admitted[k][i].t /\ admitted[k][i].t < s + w})

\* C1: for every key whose callers all pass the same positive policy (max_requests,
\* window_seconds), no interval [s, s + window_seconds) holds more than max_requests
\* admissions of that key, in every interleaving of the callers.
C1_RollingWindow ==
  \A k \in Keys, pol \in Policies :
    (pol.requests > 0 /\ pol.interval > 0 /\ Uniform(k, pol))
      => \A s \in 0..MaxTime : AdmissionsIn(k, s, pol.interval) <= pol.requests

\* C1 witness: under one positive policy a caller found the window of its key full, slept
\* and was admitted, and an earlier admission of the key is still less than a period old
C1_Witness ==
  \E k \in Keys, pol \in Policies :
    /\ pol.requests > 0 /\ pol.interval > 0
    /\ Uniform(k, pol)
    /\ Len(admitted[k]) > 1
    /\ admitted[k][Len(admitted[k])].slept

\* p is inside the accounting section of key k across an await (it sleeps with the lock)
InSection(p, k) == t_pc[p] = "sleeping" /\ t_arg[p].key = k

\* C8: at most one caller is inside the accounting section of a key, it owns the key's
\* lock, and while it is inside nobody else changes the key's history: the history of the
\* key changes only in the step in which that caller appends and leaves.
C8_Serialized ==
  [][\A k \in Keys :
       /\ Cardinality({p \in Procs : InSection(p, k)}) <= 1
       /\ \A p \in Procs :
            InSection(p, k) =>
              /\ locks[LockOf(k)].owner = p
              /\ (history'[k] # history[k] => t_pc'[p] = "idle")
              /\ Cardinality({q \in Procs : (t_pc'[q] = "sleeping" /\ t_arg'[q].key = k)}) <= 1
    ]_vars

\* C8 witness: a caller sleeps inside the section of a key while a second caller of the
\* same key is kept waiting
C8_Witness ==
  \E p, q \in Procs, k \in Keys :
    /\ p # q
    /\ InSection(p, k)
    /\ t_pc[q] = "waiting" /\ t_arg[q].key = k

\* The callers queued before p on the lock p waits for
Ahead(p) ==
  LET ws == locks[LockOf(t_arg[p].key)].waiters
  IN  {ws[i] : i \in {j \in 1..Len(ws) : \A h \in 1..j : ws[h] # p}}

\* C9: a caller waits for key B only because of callers of key B: either one of them is
\* inside B's section, or B's lock is free and only callers of B queue before it; and a
\* caller that sleeps for B sleeps exactly until B's oldest timestamp leaves the window.
C9_KeysIndependent ==
  /\ \A p \in Procs :
       t_pc[p] = "waiting" =>
         LET k == t_arg[p].key IN
           \/ \E q \in Procs \ {p} : InSection(q, k)
           \/ /\ locks[LockOf(k)].owner = NoOne
              /\ \A q \in Ahead(p) : t_pc[q] = "waiting" /\ t_arg[q].key = k
  /\ \A p \in Procs :
       t_pc[p] = "sleeping" =>
         t_wake[p] = Head(history[t_arg[p].key]) + t_arg[p].interval

\* C9 witness: a caller of one key was admitted while a caller of another key was asleep
\* inside throttle with that other key's lock
C9_Witness ==
  \E k \in Keys : \E i \in 1..Len(admitted[k]) : admitted[k][i].overlap

\* C10: a throttle call with max_requests <= 0 or period <= 0 returns in the same step
\* and changes nothing of the limiter: no timestamp, no lock, no clock reading.
C10_UnthrottledNoop ==
  [][unthrottled' # NoCall =>
       /\ history' = history
       /\ admitted' = admitted
       /\ locks' = locks
       /\ t_wake' = t_wake
       /\ t_pc'[unthrottled'.by] = "idle"
    ]_vars

\* C10 witness: an unthrottled call has just returned on a key whose history is not empty
\* and whose lock is held by a sleeping caller
C10_Witness ==
  /\ unthrottled # NoCall
  /\ history[unthrottled.key] # <<>>
  /\ \E q \in Procs \ {unthrottled.by} : InSection(q, unthrottled.key)

(***************************************************************************)
(* Claims about _fetch_with_retry, checked under SpecFetch                 *)
(***************************************************************************)

\* The run is inside a _fetch_with_retry call or has just got its result
InFetch == pc \in {"throttle", "get", "backoff", "headless", "fetched"}

\* C2: with retry.attempts = n >= 0 a call never sends more than n + 1 GETs, and when
\* every GET failed with a timeout or an HTTP error the call ends after exactly n + 1
\* GETs with the result (None, url).
C2_RetryBound ==
  (InFetch /\ cfg.attempts >= 0) =>
    /\ gets <= cfg.attempts + 1
    /\ (pc = "fetched" /\ errors = gets) => (gets = cfg.attempts + 1 /\ html = "none")

\* C2 witness: a call with at least one retry configured has ended after all its GETs
\* failed
C2_Witness ==
  /\ pc = "fetched"
  /\ cfg.attempts >= 1
  /\ errors = gets
  /\ gets = cfg.attempts + 1

\* C3: a GET answered with status 404 or 410 (and no challenge marker) ends the call at
\* once with the result (None, url): no retry follows.
C3_NoRetryOn404 ==
  (InFetch /\ last.kind = "response" /\ last.status \in {404, 410} /\ ~last.marker)
    => (pc = "fetched" /\ html = "none")

\* C4: after an edge-protected response (status 403 or 503, or a challenge marker) no
\* further GET is sent; a headless-eligible source has the renderer called exactly once
\* and gets its result, html or nothing; any other source gets (None, url).
C4_BlockedGoesHeadless ==
  (InFetch /\ last.kind = "response" /\ (last.status \in {403, 503} \/ last.marker)) =>
    /\ pc \in {"headless", "fetched"}
    /\ pc = "headless" => ((cfg.use_headless \/ headless_enabled) /\ rendered = <<>>)
    /\ pc = "fetched" =>
         IF cfg.use_headless \/ headless_enabled
         THEN Len(rendered) = 1 /\ html = rendered[1]
         ELSE rendered = <<>> /\ html = "none"

\* C4 witness: the first GET of a call that had retries left was blocked, and the call
\* ended with the html of the single headless rendering
C4_Witness ==
  /\ pc = "fetched"
  /\ last.kind = "response" /\ last.status \in {403, 503}
  /\ gets = 1 /\ cfg.attempts >= 1
  /\ rendered = <<"html">>
  /\ html = "html"

\* C11: every GET of a call, the first try and each retry, follows a throttle call of
\* its own that has returned: the GET is sent only while the run is outside throttle and
\* one throttle call is not yet used up, so throttle calls and GETs are equal in number
\* after each GET; and a throttle call in which the run waits is keyed by the host of the
\* URL being fetched and carries the rate-limit policy of the source.
C11_ThrottleBeforeGet ==
  /\ [](InFetch =>
         /\ throttles = gets + (IF pc = "get" THEN 1 ELSE 0)
         /\ t_pc[Run] # "idle" =>
              /\ pc = "get"
              /\ t_arg[Run] = [key |-> cfg.urls[url_i],
                               requests |-> cfg.rate_limit.requests,
                               interval |-> cfg.rate_limit.interval]
         /\ (pc = "get" /\ cfg.rate_limit.requests > 0 /\ cfg.rate_limit.interval > 0)
              => cfg.rate_limit \in used[cfg.urls[url_i]])
  /\ [][gets' = gets + 1 => (t_pc[Run] = "idle" /\ throttles = gets + 1)]_vars

\* C11 witness: a call has sent a first GET and a retry, and the throttle call before the
\* retry made the run sleep until the window of the host had room
C11_Witness ==
  /\ pc = "fetched"
  /\ gets = 2 /\ throttles = 2
  /\ \E i \in 1..Len(admitted[cfg.urls[url_i]]) : admitted[cfg.urls[url_i]][i].slept

\* b to the power k, by repeated multiplication
RECURSIVE Power(_, _)
Power(b, k) == IF k = 0 THEN 1 ELSE b * Power(b, k - 1)

\* C12: the wait that follows failed attempt k (0-based) is min(10, backoff_factor ** k)
\* seconds, never more than 10; every failed attempt but the last allowed one is followed
\* by such a wait, and a call that ends after all its GETs failed has not waited after
\* the last of them.
C12_BackoffDelays ==
  InFetch =>
    /\ \A k \in 0..(Len(delays) - 1) :
         /\ delays[k + 1] <= 10
         /\ delays[k + 1] = IF Power(cfg.backoff_factor, k) > 10
                            THEN 10 ELSE Power(cfg.backoff_factor, k)
    /\ Len(delays) = IF pc = "fetched" /\ errors = gets THEN errors - 1 ELSE errors

\* C12 witness: a call with two retries gave up after three failed GETs, and its second
\* wait was cut down to the cap
C12_Witness ==
  /\ pc = "fetched"
  /\ errors = 3 /\ gets = 3
  /\ Len(delays) = 2
  /\ delays[2] = 10
  /\ cfg.backoff_factor > 10

(***************************************************************************)
(* Claims about scrape_company_blog, checked under SpecScrape              *)
(***************************************************************************)

\* C5: no two articles of the run's list have the same source_url.
C5_NoDuplicateUrls ==
  \A i, j \in 1..Len(news_items) :
    i # j => news_items[i].source_url # news_items[j].source_url

\* C5 witness: a run over two sources is over, and an article URL that was offered again
\* after it had been emitted is in the returned list
C5_Witness ==
  /\ pc = "done"
  /\ n_sources >= 2
  /\ \E i \in 1..Len(news_items) :
       /\ news_items[i].source_url \in suppressed
       /\ news_items[i].source = 1

\* C6: the list a run returns never holds more than max_articles articles in total.
C6_CombinedCap ==
  pc = "done" => Len(news_items) <= max_articles

\* The items returned by the sources that completed, in order
RECURSIVE Returned(_)
Returned(os) ==
  IF os = <<>> THEN <<>>
  ELSE (IF Head(os).failed THEN <<>> ELSE Head(os).items) \o Returned(Tail(os))

\* C7: when the run is over every source has been scraped, in order, whether or not an
\* earlier one raised, and the list returned is made of the items of the sources that
\* completed.
C7_FailureIsolated ==
  pc = "done" =>
    /\ Len(outcomes) = n_sources
    /\ \A i \in 1..Len(outcomes) : outcomes[i].source = i
    /\ news_items = Returned(outcomes)

\* C7 witness: a run is over in which a source raised and a later source returned articles
C7_Witness ==
  /\ pc = "done"
  /\ \E i, j \in 1..Len(outcomes) :
       /\ i < j
       /\ outcomes[i].failed
       /\ ~outcomes[j].failed
       /\ outcomes[j].items # <<>>

\* C13: a run over configured sources that yielded no article attempts the heuristic
\* pass (GETs of the manual URL or of the default path patterns) before it returns, and a
\* run whose configured sources yielded an article does not.
C13_FallbackOnEmpty ==
  (pc = "done" /\ n_sources > 0) => ((Returned(outcomes) = <<>>) <=> (h_fetched # <<>>))

\* C14: once a page of the URLs tried in order for a website has given an article, no
\* later URL is fetched in the run: no GET is about to be sent while the run holds an
\* article of an earlier page.
C14_FirstHitEndsSearch ==
  pc = "get" => (items = <<>> /\ news_items = <<>>)

(***************************************************************************)
(* Claims about _extract_articles, checked under SpecExtract               *)
(***************************************************************************)

\* The host is the base host or a subdomain of it
SameSite(host, base) ==
  \/ host = base
  \/ /\ Len(host) > Len(base)
     /\ SubSeq(host, Len(host) - Len(base) + 1, Len(host)) = base
     /\ host[Len(host) - Len(base)] = "."

\* C15: every candidate _extract_articles returns is on the site of the base URL: its
\* host is the base host or a subdomain of it, never another domain.
C15_SameSiteOnly ==
  e_pc = "done" =>
    \A i \in 1..Len(candidates) : SameSite(candidates[i].url.host, page.base_url.host)

\* The element is an article link the selector strategy accepts: it has a href and a
\* title of the least length, and its URL looks like an article of the site
Selectable(element, base_url) ==
  /\ element.href # NoHref
  /\ (Len(element.text) >= 6 \/ Len(element.parent) >= 6)
  /\ LooksLikeArticle(UrlJoin(base_url, element.href), base_url)

\* None of the elements of the page is selectable
NothingSelectable ==
  \A i \in 1..Len(page.elements) : ~Selectable(page.elements[i], page.base_url)

\* The href "/blog/my-post" in a script body, with no title string near it
MyPostMatch == [section |-> "/blog/", slug |-> <<"m", "y", "-", "p", "o", "s", "t">>, near |-> <<>>]

C17_MinTitleLength ==
  e_pc = "done" => \A i \in 1..Len(candidates) : Len(candidates[i].title) >= 6

(***************************************************************************)
(* Claims about _infer_category, checked under SpecClassify                *)
(***************************************************************************)

\* The title with its capitals turned into small letters
Folded(text) == [i \in 1..Len(text) |-> LowerOf(text[i])]

\* Keyword group g of the table has a keyword inside the title, whatever the case
Hits(g, text) ==
  \E i \in 1..Len(Mapping[g].keywords) : Contains(Folded(text), Mapping[g].keywords[i])

\* C18: _infer_category returns the category of the first group of the table, in its
\* order, that has a keyword inside the title whatever the letter case, and none when no
\* group has one; a title with both "pricing" and "launch" is a pricing change.
C18_FirstGroupWins ==
  c_pc = "done" =>
    /\ \A g \in 1..Len(Mapping) :
         (Hits(g, c_title) /\ \A h \in 1..(g - 1) : ~Hits(h, c_title))
           => category = Mapping[g].category
    /\ (\A g \in 1..Len(Mapping) : ~Hits(g, c_title)) => category = "none"
    /\ (Contains(Folded(c_title), <<"p", "r", "i", "c", "i", "n", "g">>)
          /\ Contains(Folded(c_title), <<"l", "a", "u", "n", "c", "h">>))
         => category = "PRICING_CHANGE"

\* C18 witness: a title with a release keyword in capitals before a pricing keyword with
\* a capital has been classified as a pricing change
C18_Witness ==
  /\ c_pc = "done"
  /\ c_title = <<"L", "A", "U", "N", "C", "H", " ", "P", "r", "i", "c", "i", "n", "g">>
  /\ category = "PRICING_CHANGE"

(***************************************************************************)
(* Claims about _persist_snapshot                                          *)
(***************************************************************************)

C20_FilesHoldTheirHtml ==
  \A i \in 1..Len(persisted) :
    persisted[i].result # NoPath =>
      /\ persisted[i].result \in DOMAIN files
      /\ files[persisted[i].result] = persisted[i].args.html

(***************************************************************************)
(* Claims about RateLimiter under mixed policies and under fair scheduling *)
(***************************************************************************)

\* C26: the bound holds per call whatever policies the other callers of the key pass:
\* when throttle(key, m, w) admits a caller at time t, at most m admissions of that key,
\* this one included, are less than w old at t.
C26_PerCallBound ==
  \A k \in Keys :
    \A i \in 1..Len(admitted[k]) :
      LET e == admitted[k][i] IN
      Cardinality({j \in 1..i : e.t - admitted[k][j].t < e.interval}) <= e.requests

\* C27: every throttle call with a positive policy eventually returns: under fair
\* scheduling and an advancing clock a caller that waits for the lock of its key or
\* sleeps with it is admitted in the end, whoever else contends for the key.
C27_EveryCallReturns ==
  \A p \in Clients : (t_pc[p] # "idle") ~> (t_pc[p] = "idle")

\* C27 witness: a caller waits for the lock of a key while its holder sleeps
C27_Witness ==
  \E p, q \in Clients :
    /\ t_pc[p] = "sleeping"
    /\ t_pc[q] = "waiting"
    /\ t_arg[q].key = t_arg[p].key
    /\ locks[LockOf(t_arg[p].key)].owner = p

(***************************************************************************)
(* Claims about the pages of a crawl, checked under SpecCrawl              *)
(***************************************************************************)

\* The calls of _persist_snapshot the run made for the page an item was taken from
SnapshotsOf(item) ==
  {i \in 1..Len(persisted) :
     /\ persisted[i].by = Crawler
     /\ persisted[i].args.source_id = SourceId(item.source)
     /\ persisted[i].args.url = PageUrl(item.page)}

\* The items the run holds: those of the sources that returned and those of the
\* source under way
Held == news_items \o items

\* C21: a snapshot failure never fails the crawl.  When mkdir or write_text has raised,
\* _persist_snapshot returns None and the run goes on to the extraction of that page
\* with its items, its seen URLs and its position unchanged; and every article the
\* run holds from a page whose snapshot failed has no snapshot reference.
C21_SnapshotFailureContained ==
  /\ [](\A i \in 1..Len(Held) :
          \A j \in SnapshotsOf(Held[i]) :
            persisted[j].failed => Held[i].raw_snapshot_url = NoPath)
  /\ [][w_pc[Crawler] = "except" =>
          /\ pc' = "extract"
          /\ snapshot_path' = NoPath
          /\ persisted'[Len(persisted')].result = NoPath
          /\ UNCHANGED <<src, cfg, url_i, html, items, seen_urls, news_items, outcomes>>]_vars

\* C21 witness: the run is over and returns an article of a page whose snapshot failed
C21_Witness ==
  /\ pc = "done"
  /\ \E i \in 1..Len(news_items) :
       \E j \in SnapshotsOf(news_items[i]) : persisted[j].failed

\* The steps taken with a page are in order: the snapshot, the extraction, then for each
\* article its classification followed by its append
InOrder(done) ==
  \A i \in 1..Len(done) :
    done[i] = IF i = 1 THEN "snapshot"
              ELSE IF i = 2 THEN "extract"
              ELSE IF i % 2 = 1 THEN "classify" ELSE "emit"

\* C25: for each URL the steps happen in the order fetch, extract, classify, emit: a
\* page is worked on only once its fetch has ended with HTML, its steps are in order
\* and an article is appended only right after its classification; and a URL whose
\* fetch ended without HTML is skipped: the next step takes the next URL of the source
\* with no snapshot taken, nothing extracted, no item appended and seen_urls unchanged.
C25_PipelineOrder ==
  /\ [](/\ InOrder(steps)
        /\ (steps # <<>> \/ pc \in {"snapshot", "extract", "article", "emit"}) => html = "html"
        /\ pc = "emit" => steps[Len(steps)] = "classify"
        /\ pc = "article" => steps[Len(steps)] \in {"extract", "emit"}
        /\ pc = "extract" => steps = <<"snapshot">>)
  /\ [][(pc = "fetched" /\ html = "none") =>
          /\ pc' = "url"
          /\ url_i' = url_i + 1
          /\ steps = <<>> /\ steps' = <<>>
          /\ UNCHANGED <<src, cfg, items, seen_urls, news_items, outcomes, page_articles,
                         persisted, files, dirs, w_pc>>]_vars

\* C25 witness: the first URL of the first source was skipped, no snapshot of it was
\* taken, and the second URL has been fetched, extracted and its first article classified
C25_Witness ==
  /\ pc = "emit"
  /\ src = 1
  /\ url_i = 2
  /\ snapshots_enabled
  /\ Len(persisted) = 1
  /\ persisted[1].args.url = PageUrl(2)
  /\ steps = <<"snapshot", "extract", "classify">>

(***************************************************************************)
(* Claims about the ingestion of news items, checked under SpecCreate,     *)
(* SpecIngest and SpecSessions                                             *)
(***************************************************************************)

\* The source_url was stored when the call began: rows are never deleted, so the rows of
\* that time are the first `before` ones
StoredBefore(r) == \E i \in 1..r.before : rows[i].source_url = r.data.source_url

\* C22: on one session at most one NewsItem is stored per source_url.  A call with a
\* valid payload whose source_url is already stored returns the stored record, creates
\* nothing and is not marked newly created; one whose source_url is new stores one
\* record, returns it and is marked newly created.
C22_OneRowPerUrl ==
  /\ \A i, j \in 1..Len(rows) : rows[i].source_url = rows[j].source_url => i = j
  /\ \A k \in 1..Len(results) :
       LET r == results[k] IN
       ValidPayload(r.data) =>
         IF StoredBefore(r)
         THEN /\ r.how = "existing"
              /\ r.after = r.before
              /\ \E i \in 1..r.before :
                   rows[i].source_url = r.data.source_url /\ rows[i].id = r.id
         ELSE /\ r.how = "created"
              /\ r.after = r.before + 1
              /\ rows[r.after].source_url = r.data.source_url
              /\ rows[r.after].id = r.id

\* C22 witness: a call stored a record and a later call for the same source_url
\* returned it
C22_Witness ==
  \E j, k \in 1..Len(results) :
    /\ j < k
    /\ results[j].how = "created"
    /\ results[k].how = "existing"
    /\ results[k].id = results[j].id

\* A payload without a title
Untitled(data) == data.title = "none"

\* C24: create_news_item with a payload without a title raises ValidationError and
\* stores nothing: the table holds the same rows after the call as before it, and no
\* row without a title is ever stored.
C24_InvalidStoresNothing ==
  /\ \A k \in 1..Len(results) :
       Untitled(results[k].data) =>
         results[k].how = "ValidationError" /\ results[k].after = results[k].before
  /\ \A i \in 1..Len(rows) : ~Untitled(rows[i])

\* C24 witness: a call with an invalid payload ended on a table that holds a row
C24_Witness ==
  \E k \in 1..Len(results) :
    Untitled(results[k].data) /\ results[k].how = "ValidationError"
      /\ results[k].before > 0

\* C23: ingest_company_news run again on unchanged pages is idempotent: after every run
\* but the first the stored source_urls are those the first run left, and the run
\* reports zero newly ingested items.
C23_IngestIdempotent ==
  \A k \in 2..Len(reports) :
    reports[k].stored = reports[1].stored /\ reports[k].ingested = 0

\* C23 witness: the first run ingested an item and a second run has returned
C23_Witness == Len(reports) >= 2 /\ reports[1].ingested > 0

\* C30: when two create_news_item calls of separate sessions for one source_url, new when
\* each of them began, have ended, exactly one row holds that source_url and exactly one
\* of the two calls was marked newly created.
C30_ConcurrentCreateOnce ==
  \A j, k \in 1..Len(results) :
    (/\ j < k
     /\ results[j].by # results[k].by
     /\ results[j].data.source_url = results[k].data.source_url
     /\ ValidPayload(results[j].data) /\ ValidPayload(results[k].data)
     /\ ~StoredBefore(results[j]) /\ ~StoredBefore(results[k]))
    => /\ Cardinality(Matching(results[j].data.source_url)) = 1
       /\ (results[j].how = "created") # (results[k].how = "created")

(***************************************************************************)
(* Claims about the seen-URL set and the per-source limit of a run,        *)
(* checked under SpecScrape                                                *)
(***************************************************************************)

\* The source_urls of the articles in a list
UrlsOf(list) == {list[i].source_url : i \in 1..Len(list)}

\* C28: when a run is over, every URL in its seen-URL set is the source_url of an
\* article of the returned list, also when a source raised after some of its pages had
\* been processed.
C28_SeenAreReturned ==
  pc = "done" => seen_urls \subseteq UrlsOf(news_items)

\* The limit of a source: its own max_articles when it has one, else that of the run
LimitOf(source_config) ==
  IF source_config.max_articles # 0 THEN source_config.max_articles ELSE max_articles

\* C29: the items of the source being scraped never outnumber the limit of the source,
\* whatever the limit is, 0 included.
C29_PerSourceCap ==
  cfg # NoConfig => Len(items) <= LimitOf(cfg)

====
